---------------------------- MODULE Spec2Model ----------------------------
(***************************************************************************)
(* Verification model of pi-image-builder (LadySerena/pi-image-builder).   *)
(*                                                                         *)
(* The module holds one state machine per part of the program:             *)
(*   SizesSpec     partition.GetLogicalVolumeSizes applied to a vgs entry  *)
(*   PartitionSpec partition.CreateTable and partition.CreateLogicalVolumes*)
(*   ChecksumSpec  media.extractChecksum and media.ValidateHashes          *)
(*   DownloadSpec  media.DownloadAndVerifyMedia and media.DownloadFile     *)
(*   WriteSpec     configure.IdempotentWrite applied to one guest path     *)
(*   BuildSpec     the image build of cmd/setup with the loop device,      *)
(*                 mount and teardown functions of media/file.go           *)
(*   ExpandSpec    media.ExpandSize applied to the extracted image file    *)
(*   CommandSpec   partition.partedCommand applied to a device and options *)
(*   FlashSpec     the flash flow of cmd/flash with media.MountMedia and   *)
(*                 media.Flash                                             *)
(*   NspawnSpec    the guest commands of configure.Packages under the      *)
(*                 deadlines of configure.NspawnCommand                    *)
(*   ParseSpec     media.parsePartedOutput applied to partition listings   *)
(* Every specification leaves the variables of the other parts unchanged.  *)
(*                                                                         *)
(* Text is modelled as a sequence of one-character strings.  Byte counts   *)
(* exceed the 32-bit integers of the model checker, so a byte count n is   *)
(* kept as the pair [mib, rem] with n = mib * 2^20 + rem, 0 <= rem < 2^20. *)
(***************************************************************************)
EXTENDS Integers, Sequences, FiniteSets, TLC

VARIABLES
    entry,          \* SizesSpec: the VolumeGroupEntry handed to GetLogicalVolumeSizes
    sized,          \* SizesSpec: the values GetLogicalVolumeSizes returned, <<>> before the call
    flashPc,        \* PartitionSpec: the statement of CreateTable / CreateLogicalVolumes reached
    device,         \* PartitionSpec: the partition table on the target device
    device0,        \* PartitionSpec: the partition table the run started with
    table,          \* PartitionSpec: what GetPartitionTable returned, <<>> before the query
    guard,          \* PartitionSpec: outcome of the empty-table guard of CreateTable
    cmds,           \* PartitionSpec: the external commands run so far, in order
    lvm,            \* PartitionSpec: physical volume, volume group and logical volumes
    report,         \* PartitionSpec: the parsed vgs report, <<>> before the query
    plan,           \* PartitionSpec: what GetLogicalVolumeSizes returned, <<>> before
    flashErr,       \* PartitionSpec: the error the running function returned
    mediaBytes,     \* ChecksumSpec: the bytes of the media file
    sumLines,       \* ChecksumSpec: the lines the checksum file was written from
    finalNewline,   \* ChecksumSpec: whether the checksum file ends with a newline
    checksumBytes,  \* ChecksumSpec: the bytes of the checksum file
    sums,           \* ChecksumSpec: what extractChecksum returned, <<>> before the call
    verdict,        \* ChecksumSpec: what ValidateHashes returned, <<>> before the call
    forceOverwrite, \* DownloadSpec: the forceOverwrite argument of the current call
    files,          \* DownloadSpec: the local file system: per file, existence and content
    atCall,         \* DownloadSpec: the file system when the current call started
    statErr,        \* DownloadSpec: mediaStatErr and checksumStatErr
    gpc,            \* DownloadSpec: the statement each goroutine of the group has reached
    gerr,           \* DownloadSpec: the error each goroutine returned
    failOrder,      \* DownloadSpec: the goroutines that returned an error, in order
    groupErr,       \* DownloadSpec: the error kept by the errgroup
    dlPc,           \* DownloadSpec: the statement of DownloadAndVerifyMedia reached
    dlResult,       \* DownloadSpec: the error DownloadAndVerifyMedia returned
    opens,          \* DownloadSpec: the files opened for writing in the current call
    requests,       \* DownloadSpec: the files requested over HTTP in the current call
    validated,      \* DownloadSpec: whether ValidateHashes ran in the current call
    calls,          \* DownloadSpec: the number of calls started
    guestFile,      \* WriteSpec: the file at the guest path, <<>> while it does not exist
    writeCalls,     \* WriteSpec: the calls of IdempotentWrite made so far, in order
    buildPc,        \* BuildSpec: the statement of main the build process has reached
    runs,           \* BuildSpec: the number of build processes started
    faults,         \* BuildSpec: the number of steps the environment has failed
    image,          \* BuildSpec: the partition table inside the extracted image
    viaSymlink,     \* BuildSpec: whether the working directory is reached through a symlink
    loops,          \* BuildSpec: the backing file of every loop device, "" while free
    mountTable,     \* BuildSpec: the active mounts, oldest first
    guest,          \* BuildSpec: the resolver files inside the image's root filesystem
    loopEntry,      \* BuildSpec: what MountImageToDevice returned, <<>> before
    partition,      \* BuildSpec: what parsePartedOutput returned, <<>> before
    ops,            \* BuildSpec: the external operations of the current process, in order
    panicked,       \* BuildSpec: the value main panicked with
    outcome,        \* BuildSpec: how the last process ended
    imgFile,        \* ExpandSpec: the size of the extracted image file, <<>> while it does not exist
    expandCalls,    \* ExpandSpec: the calls of ExpandSize made so far, in order
    cmdInput,       \* CommandSpec: the device and the options handed to partedCommand
    cmdBuilt,       \* CommandSpec: the Args of the command partedCommand returned, <<>> before the call
    flowPc,         \* FlashSpec: the statement of cmd/flash main reached
    imageArg,       \* FlashSpec: the --image argument
    deviceArg,      \* FlashSpec: the --device argument
    reply,          \* FlashSpec: what the user typed at the prompt, with the error of reading it
    flowFaults,     \* FlashSpec: the number of steps the environment has failed
    hostFiles,      \* FlashSpec: the local files that exist: the compressed and the decompressed image
    targetDev,      \* FlashSpec: the target device: its partitions, device nodes, filesystems and copied trees
    flowLoops,      \* FlashSpec: the backing file of every loop device
    flowMounts,     \* FlashSpec: the active mounts, oldest first
    flowEntry,      \* FlashSpec: what MountImageToDevice returned, <<>> before
    flowOps,        \* FlashSpec: the operations of the flash process so far, in order
    flowOutcome,    \* FlashSpec: how the flash process ended
    nsPc,           \* NspawnSpec: the statement of configure.Packages reached
    nsCmd,          \* NspawnSpec: the number of the guest command at hand
    nsClock,        \* NspawnSpec: the time since Packages was called, in ticks
    nsDeadline,     \* NspawnSpec: the deadline of the context of the command at hand
    nsProc,         \* NspawnSpec: the state of the systemd-nspawn process of the command at hand
    nsLive,         \* NspawnSpec: the commands whose deadline context still holds its timer
    nsLog,          \* NspawnSpec: the commands RunCommandWithOutput has returned from, in order
    nsResult,       \* NspawnSpec: what Packages returned, <<>> before
    partedLines,    \* ParseSpec: the lines of a partition listing handed to parsePartedOutput
    parsedEntry     \* ParseSpec: what parsePartedOutput returned for them, <<>> before the call

sizeVars == <<entry, sized>>

partVars == <<flashPc, device, device0, table, guard, cmds, lvm, report, plan, flashErr>>

sumVars == <<mediaBytes, sumLines, finalNewline, checksumBytes, sums, verdict>>

dlVars == <<forceOverwrite, files, atCall, statErr, gpc, gerr, failOrder, groupErr,
            dlPc, dlResult, opens, requests, validated, calls>>

writeVars == <<guestFile, writeCalls>>

buildVars == <<buildPc, runs, faults, image, viaSymlink, loops, mountTable, guest,
               loopEntry, partition, ops, panicked, outcome>>

expandVars == <<imgFile, expandCalls>>

cmdVars == <<cmdInput, cmdBuilt>>

flowVars == <<flowPc, imageArg, deviceArg, reply, flowFaults, hostFiles, targetDev,
              flowLoops, flowMounts, flowEntry, flowOps, flowOutcome>>

nsVars == <<nsPc, nsCmd, nsClock, nsDeadline, nsProc, nsLive, nsLog, nsResult>>

parseVars == <<partedLines, parsedEntry>>

vars == <<sizeVars, partVars, sumVars, dlVars, writeVars, buildVars, expandVars, cmdVars,
          flowVars, nsVars, parseVars>>

\* what the actions of one part leave unchanged: the variables of the others
notSizes == <<partVars, sumVars, dlVars, writeVars, buildVars, expandVars, cmdVars,
              flowVars, nsVars, parseVars>>

notPart == <<sizeVars, sumVars, dlVars, writeVars, buildVars, expandVars, cmdVars,
             flowVars, nsVars, parseVars>>

notSums == <<sizeVars, partVars, dlVars, writeVars, buildVars, expandVars, cmdVars,
             flowVars, nsVars, parseVars>>

notDl == <<sizeVars, partVars, sumVars, writeVars, buildVars, expandVars, cmdVars,
           flowVars, nsVars, parseVars>>

notWrite == <<sizeVars, partVars, sumVars, dlVars, buildVars, expandVars, cmdVars,
              flowVars, nsVars, parseVars>>

notBuild == <<sizeVars, partVars, sumVars, dlVars, writeVars, expandVars, cmdVars,
              flowVars, nsVars, parseVars>>

notExpand == <<sizeVars, partVars, sumVars, dlVars, writeVars, buildVars, cmdVars,
               flowVars, nsVars, parseVars>>

notCmd == <<sizeVars, partVars, sumVars, dlVars, writeVars, buildVars, expandVars,
            flowVars, nsVars, parseVars>>

notFlow == <<sizeVars, partVars, sumVars, dlVars, writeVars, buildVars, expandVars,
             cmdVars, nsVars, parseVars>>

notNspawn == <<sizeVars, partVars, sumVars, dlVars, writeVars, buildVars, expandVars,
               cmdVars, flowVars, parseVars>>

notParse == <<sizeVars, partVars, sumVars, dlVars, writeVars, buildVars, expandVars,
              cmdVars, flowVars, nsVars>>

NoErr == "nil"

(***************************************************************************)
(* Byte counts wider than 32 bits                                          *)
(***************************************************************************)

\* partition.go:311  byteToMebibyteFactor = 1024 * 1024
byteToMebibyteFactor == 1024 * 1024

\* normal form of mib * 2^20 + rem for any integer rem
Norm(m, r) ==
    [mib |-> m + (r \div byteToMebibyteFactor), rem |-> r % byteToMebibyteFactor]

Bytes(n) == Norm(0, n)

BAdd(a, b) == Norm(a.mib + b.mib, a.rem + b.rem)

BSub(a, b) == Norm(a.mib - b.mib, a.rem - b.rem)

\* k * a for a small factor k (k * 2^20 stays below 2^31)
BScale(k, a) == Norm(k * a.mib, k * a.rem)

BLess(a, b) == a.mib < b.mib \/ (a.mib = b.mib /\ a.rem < b.rem)

BLeq(a, b) == a = b \/ BLess(a, b)

\* partition.go:312  byteToGibibyteFactor = byteToMebibyteFactor * 1024
byteToGibibyteFactor == BScale(1024, Bytes(byteToMebibyteFactor))

(***************************************************************************)
(* Decimal text <-> byte counts (strconv.Atoi, fmt "%d")                   *)
(***************************************************************************)

Digits == <<"0", "1", "2", "3", "4", "5", "6", "7", "8", "9">>

IsDigit(c) == \E i \in 1..10 : Digits[i] = c

DigitValue(c) == (CHOOSE i \in 1..10 : Digits[i] = c) - 1

RECURSIVE DecimalValue(_, _)
\* Horner evaluation of a digit sequence, most significant digit first
DecimalValue(s, acc) ==
    IF s = <<>> THEN acc
    ELSE DecimalValue(Tail(s), BAdd(BScale(10, acc), Bytes(DigitValue(Head(s)))))

\* strconv.Atoi on the texts the model produces: an optional sign is not
\* produced by vgs, so a text converts exactly when it is a non-empty run of
\* decimal digits
Atoi(s) ==
    IF s # <<>> /\ \A i \in 1..Len(s) : IsDigit(s[i])
    THEN [value |-> DecimalValue(s, Bytes(0)), err |-> NoErr]
    ELSE [value |-> Bytes(0), err |-> "strconv.Atoi: invalid syntax"]

\* quotient and remainder of a non-negative byte count by ten
DivTen(a) ==
    LET r == ((a.mib % 10) * byteToMebibyteFactor) + a.rem
    IN  [quot |-> Norm(a.mib \div 10, r \div 10), digit |-> r % 10]

RECURSIVE DecimalText(_)
\* fmt.Sprintf("%d", n) for n >= 0
DecimalText(a) ==
    LET d == DivTen(a)
    IN  IF d.quot = Bytes(0) THEN <<Digits[d.digit + 1]>>
        ELSE Append(DecimalText(d.quot), Digits[d.digit + 1])

\* strings.TrimSuffix
TrimSuffix(s, suffix) ==
    IF Len(s) >= Len(suffix)
       /\ SubSeq(s, Len(s) - Len(suffix) + 1, Len(s)) = suffix
    THEN SubSeq(s, 1, Len(s) - Len(suffix))
    ELSE s

(***************************************************************************)
(* partition.GetLogicalVolumeSizes                                         *)
(***************************************************************************)

\* partition.go:309  lvmBytes = "B"
lvmBytes == <<"B">>

\* partition.go:308  lvmMebibytes = "m"
lvmMebibytes == <<"m">>

SizesResult(root, csi, containerd, e) ==
    [rootSize |-> root, CSISize |-> csi, containerdSize |-> containerd, err |-> e]

\* the sizing before the container-runtime volume: CSI takes what is left after root
GetLogicalVolumeSizes_NoContainerd(e) ==
    LET parsed == Atoi(TrimSuffix(e.VGFree, lvmBytes))
        availableSize == BSub(parsed.value, BScale(2 * 256, Bytes(byteToMebibyteFactor)))
        rootSize == BScale(10, byteToGibibyteFactor)
        containerdSize == BScale(30, byteToGibibyteFactor)
        CSISize == BSub(availableSize, rootSize)
    IN  IF parsed.err # NoErr
        THEN SizesResult(Bytes(0), Bytes(0), Bytes(0), parsed.err)
        ELSE IF BLess(CSISize, BScale(5, byteToGibibyteFactor))
        THEN SizesResult(rootSize, CSISize, containerdSize, "not enough capacity for csi storage")
        ELSE SizesResult(rootSize, CSISize, containerdSize, NoErr)

GetLogicalVolumeSizes(e) ==
    LET parsed == Atoi(TrimSuffix(e.VGFree, lvmBytes))
        availableSize == BSub(parsed.value, BScale(2 * 256, Bytes(byteToMebibyteFactor)))
        rootSize == BScale(10, byteToGibibyteFactor)
        containerdSize == BScale(30, byteToGibibyteFactor)
        CSISize == BSub(BSub(availableSize, rootSize), containerdSize)
    IN  IF parsed.err # NoErr
        THEN SizesResult(Bytes(0), Bytes(0), Bytes(0), parsed.err)
        ELSE IF BLess(CSISize, BScale(5, byteToGibibyteFactor))
        THEN SizesResult(rootSize, CSISize, containerdSize, "not enough capacity for csi storage")
        ELSE SizesResult(rootSize, CSISize, containerdSize, NoErr)

(***************************************************************************)
(* SizesSpec: the inputs of GetLogicalVolumeSizes                          *)
(***************************************************************************)

\* how far around each boundary the free capacities are swept, in MiB
SweepMiB == 2

\* the free capacity of partition_test.go:95, "31394365440B"
TestVGFree ==
    <<"3", "1", "3", "9", "4", "3", "6", "5", "4", "4", "0", "B">>

\* 45 GiB + 512 MiB: the least free capacity that leaves 5 GiB for CSI storage
FloorMiB == (45 * 1024) + 512

\* whole-MiB parts of the free capacities tried
FreeMiB ==
    {0, 512, 29940}
    \cup {m \in (FloorMiB - SweepMiB)..(FloorMiB + SweepMiB) : TRUE}
    \cup {(40 * 1024) + 512 + k : k \in 0..SweepMiB}

FreeRem == {0, 1, byteToMebibyteFactor - 1}

\* unit suffixes vgs can print: bytes, none, or a unit the caller did not ask for
UnitSuffix == {lvmBytes, <<>>, lvmMebibytes}

VGFreeTexts ==
    {DecimalText(Norm(m, r)) \o u : m \in FreeMiB, r \in FreeRem, u \in UnitSuffix}

VolumeGroupEntry(free) ==
    [Name |-> "rootvg", PvCount |-> "1", LvCount |-> "0", SnapCount |-> "0",
     VGAttribute |-> "wz--n-", VGSize |-> free, VGFree |-> free]

NoEntry == VolumeGroupEntry(<<>>)

SizesIdle == entry = NoEntry /\ sized = <<>>

PartitionIdle ==
    /\ flashPc = "idle"
    /\ device = [label |-> "unknown", parts |-> <<>>]
    /\ device0 = device
    /\ table = <<>>
    /\ guard = "pending"
    /\ cmds = <<>>
    /\ lvm = [pv |-> FALSE, vg |-> FALSE, lvs |-> <<>>]
    /\ report = <<>>
    /\ plan = <<>>
    /\ flashErr = NoErr

FileNames == {"media", "checksum"}

Absent == [exists |-> FALSE, content |-> <<>>]

DownloadIdle ==
    /\ forceOverwrite = FALSE
    /\ files = [f \in FileNames |-> Absent]
    /\ atCall = files
    /\ statErr = [f \in FileNames |-> NoErr]
    /\ gpc = [f \in FileNames |-> "not started"]
    /\ gerr = [f \in FileNames |-> NoErr]
    /\ failOrder = <<>>
    /\ groupErr = NoErr
    /\ dlPc = "idle"
    /\ dlResult = NoErr
    /\ opens = {}
    /\ requests = {}
    /\ validated = FALSE
    /\ calls = 0

ChecksumIdle ==
    /\ mediaBytes = <<>>
    /\ sumLines = <<>>
    /\ finalNewline = FALSE
    /\ checksumBytes = <<>>
    /\ sums = <<>>
    /\ verdict = <<>>

WriteIdle == guestFile = <<>> /\ writeCalls = <<>>

BuildIdle ==
    /\ buildPc = "idle"
    /\ runs = 0
    /\ faults = 0
    /\ image = <<>>
    /\ viaSymlink = FALSE
    /\ loops = <<>>
    /\ mountTable = <<>>
    /\ guest = [resolv |-> "absent", backup |-> "absent"]
    /\ loopEntry = <<>>
    /\ partition = <<>>
    /\ ops = <<>>
    /\ panicked = NoErr
    /\ outcome = "none"

ExpandIdle ==
    /\ imgFile = <<>>
    /\ expandCalls = <<>>

CommandIdle ==
    /\ cmdInput = <<>>
    /\ cmdBuilt = <<>>

FlashIdle ==
    /\ flowPc = "idle"
    /\ imageArg = <<>>
    /\ deviceArg = <<>>
    /\ reply = <<>>
    /\ flowFaults = 0
    /\ hostFiles = {}
    /\ targetDev = <<>>
    /\ flowLoops = <<>>
    /\ flowMounts = <<>>
    /\ flowEntry = <<>>
    /\ flowOps = <<>>
    /\ flowOutcome = "none"

NspawnIdle ==
    /\ nsPc = "idle"
    /\ nsCmd = 0
    /\ nsClock = 0
    /\ nsDeadline = 0
    /\ nsProc = "none"
    /\ nsLive = {}
    /\ nsLog = <<>>
    /\ nsResult = <<>>

ParseIdle ==
    /\ partedLines = <<>>
    /\ parsedEntry = <<>>

SizesInit ==
    /\ entry \in {VolumeGroupEntry(t) : t \in VGFreeTexts}
    /\ sized = <<>>
    /\ PartitionIdle
    /\ ChecksumIdle
    /\ DownloadIdle
    /\ WriteIdle
    /\ BuildIdle
    /\ ExpandIdle
    /\ CommandIdle
    /\ FlashIdle
    /\ NspawnIdle
    /\ ParseIdle

\* the call of partition_test.go:101 and partition.go:455
CallGetLogicalVolumeSizes ==
    /\ sized = <<>>
    /\ sized' = <<GetLogicalVolumeSizes(entry)>>
    /\ UNCHANGED <<entry, notSizes>>

SizesNext == CallGetLogicalVolumeSizes

SizesSpec == SizesInit /\ [][SizesNext]_vars


(***************************************************************************)
(* partition.CreateTable and partition.CreateLogicalVolumes, as called by  *)
(* cmd/flash main on the output device                                     *)
(***************************************************************************)

\* the most partitions a device starts with
MaxParts == 3

\* the --device argument of cmd/flash
OutputDevice == "/dev/sdb"

\* part_000:223-229  names of the volume group and its logical volumes
VolumeGroupName == "rootvg"

RootLogicalVolume == "rootlv"

CSILogicalVolume == "csilv"

ContainerdVolume == "containerdlv"

\* partition.go:329-337
PartitionEntry(number, filesystem, flags) ==
    [Number |-> number, Filesystem |-> filesystem, Flags |-> flags]

\* a Go slice: nil, or a (possibly zero-length) list
Slice(isNil, items) == [isNil |-> isNil, items |-> items]

\* len() of a slice: zero for nil
LenSlice(sl) == IF sl.isNil THEN 0 ELSE Len(sl.items)

\* the partition lists a device can start with: numbered from 1 in table order
RECURSIVE PartLists(_)
PartLists(n) ==
    IF n = 0 THEN {<<>>}
    ELSE LET shorter == PartLists(n - 1)
         IN  shorter \cup
             {Append(l, PartitionEntry(Len(l) + 1, f, {})) :
                 l \in {x \in shorter : Len(x) = n - 1}, f \in {"fat32", "ext4"}}

\* os/exec Command: Args holds the command name followed by the arguments
ExecCommandArgs(name, arg) == <<name>> \o arg

\* a builder that puts the options before the script flag and the device
partedCommand_OptionsFirst(dev, options) == ExecCommandArgs("parted", options \o <<"-s", dev>>)

\* partition.go:388-391  args := append([]string{"-s", device}, options...);
\* exec.Command("parted", args...)
partedCommand(dev, options) == ExecCommandArgs("parted", <<"-s", dev>> \o options)

\* partition.go:355-357
ToLvmArgument(size) == DecimalText(size) \o <<"B">>

Command(tool, argv, size) == [tool |-> tool, argv |-> argv, size |-> size]

\* an lvcreate that keeps whatever signature is found on the extent
LvCreate_NoWipe(size, name) ==
    Command("lvcreate",
            <<"lvcreate", "--size", "<size>", VolumeGroupName, "-n", name>>,
            ToLvmArgument(size))

\* the lvcreate invocations of partition.go:460, 465 and 470
LvCreate(size, name) ==
    Command("lvcreate",
            <<"lvcreate", "--size", "<size>", VolumeGroupName, "-n", name,
              "--wipesignatures", "y">>,
            ToLvmArgument(size))

Issue(c) == cmds' = Append(cmds, c)

\* return err from the function that is running
ReturnErr(e) ==
    /\ flashPc' = "failed"
    /\ flashErr' = e

\* json.Unmarshal of the "partitions" member: an absent member leaves the
\* slice nil, an empty list gives a zero-length slice
ParsedPartitions == {Slice(TRUE, <<>>), Slice(FALSE, <<>>)}

\* partition.go:364-386 (called at 395): parted -j <device> unit MiB print
GetPartitionTable ==
    /\ flashPc = "CreateTable"
    /\ \/ \E e \in {"parted: exit status 1", "json: invalid character"} :
            table' = <<[Partitions |-> Slice(TRUE, <<>>), err |-> e]>>
       \/ \E sl \in ParsedPartitions :
            /\ device.parts = <<>>
            /\ table' = <<[Partitions |-> sl, err |-> NoErr]>>
       \/ /\ device.parts # <<>>
          /\ table' = <<[Partitions |-> Slice(FALSE, device.parts), err |-> NoErr]>>
    /\ flashPc' = "guard"
    /\ UNCHANGED <<device, device0, guard, cmds, lvm, report, plan, flashErr, notPart>>

\* the older guard of verifyEmptyPartitionTable, partition.go:69
NonEmptyTable_NilCheck(t) == ~t.Partitions.isNil

\* partition.go:400  len(currentTable.Disk.Partitions) != 0
NonEmptyTable(t) == LenSlice(t.Partitions) # 0

\* the same step without the early return on a failed query
CheckEmptyTable_NoQueryErr ==
    /\ flashPc = "guard"
    /\ IF NonEmptyTable(table[1])
       THEN /\ guard' = "rejected"
            /\ ReturnErr("device does not have an empty partition table")
       ELSE /\ guard' = "passed"
            /\ flashPc' = "mktable"
            /\ UNCHANGED flashErr
    /\ UNCHANGED <<device, device0, table, cmds, lvm, report, plan, notPart>>

\* partition.go:396-402: the two early returns of CreateTable
CheckEmptyTable ==
    /\ flashPc = "guard"
    /\ IF table[1].err # NoErr
       THEN /\ guard' = "query failed"
            /\ ReturnErr(table[1].err)
       ELSE IF NonEmptyTable(table[1])
       THEN /\ guard' = "rejected"
            /\ ReturnErr("device does not have an empty partition table")
       ELSE /\ guard' = "passed"
            /\ flashPc' = "mktable"
            /\ UNCHANGED flashErr
    /\ UNCHANGED <<device, device0, table, cmds, lvm, report, plan, notPart>>

\* one parted command of CreateTable: run it, return its error or go on
PartedStep(at, options, effect, next) ==
    /\ flashPc = at
    /\ Issue(Command("parted", partedCommand(OutputDevice, options), <<>>))
    /\ \/ /\ ReturnErr("parted: exit status 1")
          /\ UNCHANGED device
       \/ /\ device' = effect
          /\ flashPc' = next
          /\ UNCHANGED flashErr
    /\ UNCHANGED <<device0, table, guard, lvm, report, plan, notPart>>

\* partition.go:404-407
MkTable ==
    PartedStep("mktable", <<"mktable", "msdos">>,
               [label |-> "msdos", parts |-> <<>>], "mkpart boot")

\* partition.go:409-412
MkPartBoot ==
    PartedStep("mkpart boot", <<"mkpart", "primary", "fat32", "2048s", "257MiB">>,
               [device EXCEPT !.parts = Append(@, PartitionEntry(Len(@) + 1, "fat32", {}))],
               "mkpart root")

\* partition.go:414-417
MkPartRoot ==
    PartedStep("mkpart root", <<"mkpart", "primary", "ext4", "257MiB", "100%">>,
               [device EXCEPT !.parts = Append(@, PartitionEntry(Len(@) + 1, "ext4", {}))],
               "set lvm")

\* partition.go:419-424, and the return to flash.go:113-117
SetLvm ==
    PartedStep("set lvm", <<"set", "2", "lvm", "on">>,
               [device EXCEPT !.parts =
                   [i \in DOMAIN @ |->
                       IF @[i].Number = 2 THEN [@[i] EXCEPT !.Flags = @ \cup {"lvm"}]
                       ELSE @[i]]],
               "pvcreate")

\* one LVM command of CreateLogicalVolumes run through RunCommandWithOutput
LvmStep(at, c, effect, next) ==
    /\ flashPc = at
    /\ Issue(c)
    /\ \/ /\ ReturnErr("non zero exit code")
          /\ UNCHANGED lvm
       \/ /\ lvm' = effect
          /\ flashPc' = next
          /\ UNCHANGED flashErr
    /\ UNCHANGED <<device, device0, table, guard, report, plan, notPart>>

\* partition.go:429-435
PvCreate ==
    LvmStep("pvcreate", Command("pvcreate", <<"pvcreate", "/dev/sdb2">>, <<>>),
            [lvm EXCEPT !.pv = TRUE], "vgcreate")

\* partition.go:437-440
VgCreate ==
    LvmStep("vgcreate",
            Command("vgcreate", <<"vgcreate", VolumeGroupName, "/dev/sdb2">>, <<>>),
            [lvm EXCEPT !.vg = TRUE], "vgs")

\* partition.go:442-452: vgs --reportformat json --units B and its parse;
\* the report lists the volume groups named rootvg, with any free capacity
VgsReport ==
    /\ flashPc = "vgs"
    /\ Issue(Command("vgs", <<"vgs", VolumeGroupName, "--reportformat", "json",
                              "--units", "B">>, <<>>))
    /\ \/ /\ \E e \in {"vgs: exit status 5", "json: invalid character"} : ReturnErr(e)
          /\ UNCHANGED report
       \/ /\ \E vgList \in {<<>>} \cup {<<VolumeGroupEntry(t)>> : t \in VGFreeTexts} :
                report' = <<vgList>>
          /\ flashPc' = "sizes"
          /\ UNCHANGED flashErr
    /\ UNCHANGED <<device, device0, table, guard, lvm, plan, notPart>>

\* the same step going on to volume creation whatever the sizing returned
PlanSizes_IgnoreErr ==
    /\ flashPc = "sizes"
    /\ IF report[1] = <<>>
       THEN /\ flashPc' = "panicked"
            /\ UNCHANGED <<plan, flashErr>>
       ELSE /\ plan' = <<GetLogicalVolumeSizes(report[1][1])>>
            /\ flashPc' = "lvcreate root"
            /\ UNCHANGED flashErr
    /\ UNCHANGED <<device, device0, table, guard, cmds, lvm, report, notPart>>

\* partition.go:454-458: index the report (a run-time panic when the list is
\* empty), size the volumes, return the sizing error
PlanSizes ==
    /\ flashPc = "sizes"
    /\ IF report[1] = <<>>
       THEN /\ flashPc' = "panicked"
            /\ UNCHANGED <<plan, flashErr>>
       ELSE LET r == GetLogicalVolumeSizes(report[1][1])
            IN  /\ plan' = <<r>>
                /\ IF r.err # NoErr
                   THEN ReturnErr(r.err)
                   ELSE /\ flashPc' = "lvcreate root"
                        /\ UNCHANGED flashErr
    /\ UNCHANGED <<device, device0, table, guard, cmds, lvm, report, notPart>>

NewVolume(name, size) == [lvm EXCEPT !.lvs = Append(@, [name |-> name, size |-> size])]

\* partition.go:460-463
LvCreateRoot ==
    LvmStep("lvcreate root", LvCreate(plan[1].rootSize, RootLogicalVolume),
            NewVolume(RootLogicalVolume, plan[1].rootSize), "lvcreate csi")

\* partition.go:465-468
LvCreateCSI ==
    LvmStep("lvcreate csi", LvCreate(plan[1].CSISize, CSILogicalVolume),
            NewVolume(CSILogicalVolume, plan[1].CSISize), "lvcreate containerd")

\* partition.go:470-475
LvCreateContainerd ==
    LvmStep("lvcreate containerd", LvCreate(plan[1].containerdSize, ContainerdVolume),
            NewVolume(ContainerdVolume, plan[1].containerdSize), "volumes created")

PartitionInit ==
    /\ flashPc = "CreateTable"
    /\ device \in {[label |-> l, parts |-> ps] :
                      l \in {"unknown", "msdos", "gpt"}, ps \in PartLists(MaxParts)}
    /\ device0 = device
    /\ table = <<>>
    /\ guard = "pending"
    /\ cmds = <<>>
    /\ lvm = [pv |-> FALSE, vg |-> FALSE, lvs |-> <<>>]
    /\ report = <<>>
    /\ plan = <<>>
    /\ flashErr = NoErr
    /\ SizesIdle
    /\ ChecksumIdle
    /\ DownloadIdle
    /\ WriteIdle
    /\ BuildIdle
    /\ ExpandIdle
    /\ CommandIdle
    /\ FlashIdle
    /\ NspawnIdle
    /\ ParseIdle

PartitionNext ==
    \/ GetPartitionTable
    \/ CheckEmptyTable
    \/ MkTable
    \/ MkPartBoot
    \/ MkPartRoot
    \/ SetLvm
    \/ PvCreate
    \/ VgCreate
    \/ VgsReport
    \/ PlanSizes
    \/ LvCreateRoot
    \/ LvCreateCSI
    \/ LvCreateContainerd

PartitionSpec == PartitionInit /\ [][PartitionNext]_vars

(***************************************************************************)
(* media.extractChecksum and media.ValidateHashes                          *)
(***************************************************************************)

\* the most lines of a checksum file
MaxLines == 3

\* the most bytes of a media file
MaxMediaLen == 1

\* download.go:37  ImageName, shortened
ImageName == <<"i", "m", "g">>

\* another file listed in the checksum file
OtherName == <<"i", "s", "o">>

Newline == <<"\n">>

\* the first index at which sep occurs in s, 0 when it does not occur
Index(s, sep) ==
    LET hits == {i \in 1..(Len(s) - Len(sep) + 1) : SubSeq(s, i, i + Len(sep) - 1) = sep}
    IN  IF hits = {} THEN 0 ELSE CHOOSE i \in hits : \A j \in hits : i <= j

RECURSIVE Split(_, _)
\* bytes.Split(s, sep) for a non-empty sep
Split(s, sep) ==
    LET i == Index(s, sep)
    IN  IF i = 0 THEN <<s>>
        ELSE <<SubSeq(s, 1, i - 1)>> \o Split(SubSeq(s, i + Len(sep), Len(s)), sep)

\* all sequences over S of length at most n
RECURSIVE SeqsUpTo(_, _)
SeqsUpTo(S, n) ==
    IF n = 0 THEN {<<>>}
    ELSE LET shorter == SeqsUpTo(S, n - 1)
         IN  shorter \cup {Append(q, x) : q \in {y \in shorter : Len(y) = n - 1}, x \in S}

HexDigits ==
    <<"0", "1", "2", "3", "4", "5", "6", "7", "8", "9", "a", "b", "c", "d", "e", "f">>

\* hex.EncodeToString of one byte
EncodeToString(b) == <<HexDigits[(b \div 16) + 1], HexDigits[(b % 16) + 1]>>

RECURSIVE Binary(_, _)
\* the number whose binary digits are a leading 1 followed by the bits of m
Binary(m, acc) == IF m = <<>> THEN acc ELSE Binary(Tail(m), (2 * acc) + Head(m))

\* the digest of download.go:109-111, cut down to one byte: collision-free on
\* the media of the model (an odd multiplier permutes the residues mod 256)
Sha256Hex(m) == EncodeToString(((Binary(m, 1) * 37) + 11) % 256)

\* a Go map[string][]byte as a function on its keys
EmptyMap == [k \in {} |-> <<>>]

Put(m, k, v) == [x \in (DOMAIN m) \cup {k} |-> IF x = k THEN v ELSE m[x]]

\* a lookup that answers an absent key with the value of another key
Get_AnyEntry(m, k) ==
    IF k \in DOMAIN m THEN m[k]
    ELSE IF DOMAIN m = {} THEN <<>>
    ELSE m[CHOOSE x \in DOMAIN m : TRUE]

\* m[k]: the nil slice for an absent key
Get(m, k) == IF k \in DOMAIN m THEN m[k] ELSE <<>>

\* the separator as two spaces, the text-mode format of sha256sum
FieldSeparator_TwoSpaces == <<" ", " ">>

\* download.go:130  []byte(" *")
FieldSeparator == <<" ", "*">>

\* the assignment with the two fields exchanged
PutLine_Swapped(m, lineSplit) == Put(m, lineSplit[1], lineSplit[2])

\* download.go:134  sums[string(lineSplit[1])] = lineSplit[0]
PutLine(m, lineSplit) == Put(m, lineSplit[2], lineSplit[1])

RECURSIVE ExtractLines(_, _)
\* download.go:125-135: the loop over the lines
ExtractLines(split, m) ==
    IF split = <<>> THEN [sums |-> m, err |-> NoErr]
    ELSE IF Len(Head(split)) = 0 THEN [sums |-> m, err |-> NoErr]
    ELSE LET lineSplit == Split(Head(split), FieldSeparator)
         IN  IF Len(lineSplit) # 2
             THEN [sums |-> m, err |-> "length mismatch check file format"]
             ELSE ExtractLines(Tail(split), PutLine(m, lineSplit))

\* a reading that passes over empty lines and goes on to the end of the file
extractChecksum_SkipEmpty(fileBytes) ==
    LET NonEmpty(line) == Len(line) # 0
    IN  ExtractLines(SelectSeq(Split(fileBytes, Newline), NonEmpty), EmptyMap)

\* download.go:122-137
extractChecksum(fileBytes) == ExtractLines(Split(fileBytes, Newline), EmptyMap)

\* the comparison accepting the digest recorded for any file
ValidateHashes_AnyFile(fileName, media, checksum) ==
    LET mediaHash == Sha256Hex(media)
        checksums == extractChecksum(checksum)
    IN  IF checksums.err # NoErr THEN checksums.err
        ELSE IF \A k \in DOMAIN checksums.sums : mediaHash # checksums.sums[k]
        THEN "checksums do not match"
        ELSE NoErr

\* download.go:108-120
ValidateHashes(fileName, media, checksum) ==
    LET mediaHash == Sha256Hex(media)
        checksums == extractChecksum(checksum)
    IN  IF checksums.err # NoErr THEN checksums.err
        ELSE IF mediaHash # Get(checksums.sums, fileName)
        THEN "checksums do not match"
        ELSE NoErr

(***************************************************************************)
(* ChecksumSpec: checksum files written line by line                       *)
(***************************************************************************)

\* the media whose digests the checksum files list
ListedMedia == {<<>>, <<1>>}

Line(kind, digest, name) == [kind |-> kind, digest |-> digest, name |-> name]

\* the lines a checksum file is written from:
\*   star   "<digest> *<name>"          two   "<digest>  <name>"
\*   bare   "<digest>"                  triple "<digest> *<name> *<name>"
\*   empty  ""
LineChoices ==
    {Line("star", Sha256Hex(m), n) : m \in ListedMedia, n \in {ImageName, OtherName}}
    \cup {Line("two", Sha256Hex(m), ImageName) : m \in ListedMedia}
    \cup {Line("bare", Sha256Hex(<<>>), <<>>),
          Line("triple", Sha256Hex(<<>>), ImageName),
          Line("empty", <<>>, <<>>)}

LineText(l) ==
    CASE l.kind = "star"   -> l.digest \o <<" ", "*">> \o l.name
      [] l.kind = "two"    -> l.digest \o <<" ", " ">> \o l.name
      [] l.kind = "bare"   -> l.digest
      [] l.kind = "triple" -> l.digest \o <<" ", "*">> \o l.name \o <<" ", "*">> \o l.name
      [] l.kind = "empty"  -> <<>>

RECURSIVE JoinLines(_)
\* the lines separated by newlines
JoinLines(ls) ==
    IF ls = <<>> THEN <<>>
    ELSE IF Len(ls) = 1 THEN LineText(ls[1])
    ELSE LineText(Head(ls)) \o Newline \o JoinLines(Tail(ls))

FileText(ls, nl) == JoinLines(ls) \o (IF nl THEN Newline ELSE <<>>)

ChecksumInit ==
    /\ mediaBytes \in SeqsUpTo({0, 1}, MaxMediaLen)
    /\ sumLines \in SeqsUpTo(LineChoices, MaxLines)
    /\ finalNewline \in BOOLEAN
    /\ checksumBytes = FileText(sumLines, finalNewline)
    /\ sums = <<>>
    /\ verdict = <<>>
    /\ SizesIdle
    /\ PartitionIdle
    /\ DownloadIdle
    /\ WriteIdle
    /\ BuildIdle
    /\ ExpandIdle
    /\ CommandIdle
    /\ FlashIdle
    /\ NspawnIdle
    /\ ParseIdle

\* a call of extractChecksum on the checksum file
CallExtractChecksum ==
    /\ sums = <<>>
    /\ sums' = <<extractChecksum(checksumBytes)>>
    /\ UNCHANGED <<mediaBytes, sumLines, finalNewline, checksumBytes, verdict,
                   notSums>>

\* download.go:85: the call of ValidateHashes on the two files
CallValidateHashes ==
    /\ verdict = <<>>
    /\ verdict' = <<ValidateHashes(ImageName, mediaBytes, checksumBytes)>>
    /\ UNCHANGED <<mediaBytes, sumLines, finalNewline, checksumBytes, sums,
                   notSums>>

ChecksumNext == CallExtractChecksum \/ CallValidateHashes

ChecksumSpec == ChecksumInit /\ [][ChecksumNext]_vars

(***************************************************************************)
(* media.DownloadAndVerifyMedia and media.DownloadFile                     *)
(***************************************************************************)

\* the most calls of DownloadAndVerifyMedia in a behaviour
MaxCalls == 2

ErrNotExist == "file does not exist"

\* what the release server holds: the image, and a checksum file listing it
RemoteContent ==
    [media    |-> <<1>>,
     checksum |-> FileText(<<Line("star", Sha256Hex(<<1>>), ImageName)>>, TRUE)]

\* what a file left by an earlier run can hold: the server's content, or not
LocalContents ==
    [media    |-> {<<1>>, <<0>>},
     checksum |-> {RemoteContent.checksum,
                   FileText(<<Line("star", Sha256Hex(<<>>), OtherName)>>, TRUE)}]

Existing(c) == [exists |-> TRUE, content |-> c]

\* the errors of DownloadFile, per file
OpenErr == [media |-> "open media: permission denied",
            checksum |-> "open checksum: permission denied"]

GetErr == [media |-> "get media: connection refused",
           checksum |-> "get checksum: connection refused"]

CopyErr == [media |-> "copy media: unexpected EOF",
            checksum |-> "copy checksum: unexpected EOF"]

ReadErr == [media |-> "read media: input/output error",
            checksum |-> "read checksum: input/output error"]

\* the proper prefixes of a content: what a broken copy leaves behind
Prefixes(c) == {SubSeq(c, 1, k) : k \in 0..(Len(c) - 1)}

DownloadInit ==
    /\ forceOverwrite \in BOOLEAN
    /\ files \in [FileNames -> {Absent}]
                 \cup {[f \in FileNames |-> IF f \in present THEN Existing(c[f]) ELSE Absent] :
                          present \in SUBSET FileNames,
                          c \in [media : LocalContents.media,
                                 checksum : LocalContents.checksum]}
    /\ atCall = files
    /\ statErr = [f \in FileNames |-> NoErr]
    /\ gpc = [f \in FileNames |-> "not started"]
    /\ gerr = [f \in FileNames |-> NoErr]
    /\ failOrder = <<>>
    /\ groupErr = NoErr
    /\ dlPc = "stat"
    /\ dlResult = NoErr
    /\ opens = {}
    /\ requests = {}
    /\ validated = FALSE
    /\ calls = 1
    /\ SizesIdle
    /\ PartitionIdle
    /\ ChecksumIdle
    /\ WriteIdle
    /\ BuildIdle
    /\ ExpandIdle
    /\ CommandIdle
    /\ FlashIdle
    /\ NspawnIdle
    /\ ParseIdle

\* download.go:52-71: the two Stat calls, then group.Go twice
StatAndGo ==
    /\ dlPc = "stat"
    /\ statErr' \in [FileNames -> {NoErr, ErrNotExist, "stat: permission denied"}]
    /\ \A f \in FileNames :
          IF files[f].exists THEN statErr'[f] # ErrNotExist ELSE statErr'[f] = ErrNotExist
    /\ gpc' = [f \in FileNames |-> "start"]
    /\ dlPc' = "wait"
    /\ UNCHANGED <<forceOverwrite, files, atCall, gerr, failOrder, groupErr, dlResult,
                   opens, requests, validated, calls, notDl>>

\* the condition with the test of the Stat error negated
NeedsDownload_Negated(f) == forceOverwrite \/ statErr[f] # ErrNotExist

\* download.go:57 and 65  forceOverwrite || errors.Is(statErr, fs.ErrNotExist)
NeedsDownload(f) == forceOverwrite \/ statErr[f] = ErrNotExist

\* an error group that keeps the error returned last
Return_LastErr(f, e) ==
    /\ gpc' = [gpc EXCEPT ![f] = "done"]
    /\ gerr' = [gerr EXCEPT ![f] = e]
    /\ failOrder' = IF e = NoErr THEN failOrder ELSE Append(failOrder, f)
    /\ groupErr' = IF e # NoErr THEN e ELSE groupErr

\* a goroutine of the group returns e: errgroup keeps the first non-nil error
Return(f, e) ==
    /\ gpc' = [gpc EXCEPT ![f] = "done"]
    /\ gerr' = [gerr EXCEPT ![f] = e]
    /\ failOrder' = IF e = NoErr THEN failOrder ELSE Append(failOrder, f)
    /\ groupErr' = IF e # NoErr /\ groupErr = NoErr THEN e ELSE groupErr

Continue(f, at) ==
    /\ gpc' = [gpc EXCEPT ![f] = at]
    /\ UNCHANGED <<gerr, failOrder, groupErr>>

\* download.go:56-63 and 64-71: the function given to group.Go
GoStart(f) ==
    /\ gpc[f] = "start"
    /\ IF NeedsDownload(f) THEN Continue(f, "open") ELSE Return(f, NoErr)
    /\ UNCHANGED <<forceOverwrite, files, atCall, statErr, dlPc, dlResult,
                   opens, requests, validated, calls, notDl>>

\* an open that neither creates nor truncates the file
OpenFile_NoCreate(f) ==
    /\ gpc[f] = "open"
    /\ \/ /\ Return(f, OpenErr[f])
          /\ UNCHANGED <<files, opens>>
       \/ /\ files' = files
          /\ opens' = opens \cup {f}
          /\ Continue(f, "get")
    /\ UNCHANGED <<forceOverwrite, atCall, statErr, dlPc, dlResult,
                   requests, validated, calls, notDl>>

\* download.go:89-92: OpenFile with O_WRONLY|O_CREATE|O_TRUNC
OpenFile(f) ==
    /\ gpc[f] = "open"
    /\ \/ /\ Return(f, OpenErr[f])
          /\ UNCHANGED <<files, opens>>
       \/ /\ files' = [files EXCEPT ![f] = Existing(<<>>)]
          /\ opens' = opens \cup {f}
          /\ Continue(f, "get")
    /\ UNCHANGED <<forceOverwrite, atCall, statErr, dlPc, dlResult,
                   requests, validated, calls, notDl>>

\* download.go:95-98: client.Get
HttpGet(f) ==
    /\ gpc[f] = "get"
    /\ requests' = requests \cup {f}
    /\ \/ Return(f, GetErr[f])
       \/ Continue(f, "copy")
    /\ UNCHANGED <<forceOverwrite, files, atCall, statErr, dlPc, dlResult,
                   opens, validated, calls, notDl>>

\* download.go:101-105: io.Copy of the response body into the file
CopyBody(f) ==
    /\ gpc[f] = "copy"
    /\ \/ /\ \E part \in Prefixes(RemoteContent[f]) :
                files' = [files EXCEPT ![f] = Existing(part)]
          /\ Return(f, CopyErr[f])
       \/ /\ files' = [files EXCEPT ![f] = Existing(RemoteContent[f])]
          /\ Return(f, NoErr)
    /\ UNCHANGED <<forceOverwrite, atCall, statErr, dlPc, dlResult,
                   opens, requests, validated, calls, notDl>>

\* a Wait that returns as soon as one goroutine has returned
WaitReady_Any == \E f \in FileNames : gpc[f] = "done"

\* group.Wait blocks until every goroutine of the group has returned
WaitReady == \A f \in FileNames : gpc[f] = "done"

ReturnFromCall(e) ==
    /\ dlResult' = e
    /\ dlPc' = "returned"

\* download.go:72-74: group.Wait and the return of its error
Wait ==
    /\ dlPc = "wait"
    /\ WaitReady
    /\ IF groupErr # NoErr
       THEN ReturnFromCall(groupErr)
       ELSE /\ dlPc' = "verify"
            /\ UNCHANGED dlResult
    /\ UNCHANGED <<forceOverwrite, files, atCall, statErr, gpc, gerr, failOrder, groupErr,
                   opens, requests, validated, calls, notDl>>

\* afero.ReadFile: the content, or an error
CanRead(f) == files[f].exists

\* a call that compares the digests only after it has downloaded something
ReadAndValidate_TrustExisting ==
    /\ dlPc = "verify"
    /\ \/ /\ \E f \in FileNames : ReturnFromCall(ReadErr[f])
          /\ UNCHANGED validated
       \/ /\ \E f \in FileNames : ~CanRead(f)
          /\ ReturnFromCall(ErrNotExist)
          /\ UNCHANGED validated
       \/ /\ \A f \in FileNames : CanRead(f)
          /\ validated' = (opens # {})
          /\ ReturnFromCall(IF opens = {} THEN NoErr
                            ELSE ValidateHashes(ImageName, files.media.content,
                                                files.checksum.content))
    /\ UNCHANGED <<forceOverwrite, files, atCall, statErr, gpc, gerr, failOrder, groupErr,
                   opens, requests, calls, notDl>>

\* download.go:76-85: read both files, return ValidateHashes
ReadAndValidate ==
    /\ dlPc = "verify"
    /\ \/ /\ \E f \in FileNames : ReturnFromCall(ReadErr[f])
          /\ UNCHANGED validated
       \/ /\ \E f \in FileNames : ~CanRead(f)
          /\ ReturnFromCall(ErrNotExist)
          /\ UNCHANGED validated
       \/ /\ \A f \in FileNames : CanRead(f)
          /\ validated' = TRUE
          /\ ReturnFromCall(ValidateHashes(ImageName, files.media.content,
                                           files.checksum.content))
    /\ UNCHANGED <<forceOverwrite, files, atCall, statErr, gpc, gerr, failOrder, groupErr,
                   opens, requests, calls, notDl>>

\* cmd/setup main run again: the next call of DownloadAndVerifyMedia
NextCall ==
    /\ dlPc = "returned"
    /\ calls < MaxCalls
    /\ calls' = calls + 1
    /\ forceOverwrite' \in BOOLEAN
    /\ atCall' = files
    /\ statErr' = [f \in FileNames |-> NoErr]
    /\ gpc' = [f \in FileNames |-> "not started"]
    /\ gerr' = [f \in FileNames |-> NoErr]
    /\ failOrder' = <<>>
    /\ groupErr' = NoErr
    /\ dlPc' = "stat"
    /\ dlResult' = NoErr
    /\ opens' = {}
    /\ requests' = {}
    /\ validated' = FALSE
    /\ UNCHANGED <<files, notDl>>

DownloadNext ==
    \/ StatAndGo
    \/ \E f \in FileNames : GoStart(f)
    \/ \E f \in FileNames : OpenFile(f)
    \/ \E f \in FileNames : HttpGet(f)
    \/ \E f \in FileNames : CopyBody(f)
    \/ Wait
    \/ ReadAndValidate
    \/ NextCall

DownloadSpec == DownloadInit /\ [][DownloadNext]_vars

(***************************************************************************)
(* WriteSpec: configure.IdempotentWrite applied to one guest path          *)
(***************************************************************************)
MaxWrites == 2

MaxData == 2

DataBytes == {"a", "b"}

Contents == SeqsUpTo(DataBytes, MaxData)

WriteFaults == {"none", "reader", "open", "read", "write"}

WriteErrors == [reader |-> "read incoming: unexpected EOF",
                open   |-> "open guest file: permission denied",
                read   |-> "read guest file: input/output error",
                write  |-> "write guest file: no space left on device"]

\* fs.OpenFile(path, os.O_CREATE|os.O_RDWR, mode): a missing file is created
\* empty, an existing one keeps its bytes (no O_TRUNC, no O_APPEND); the
\* handle starts at offset 0
OpenReadWrite(file) ==
    [data |-> IF file = <<>> THEN <<>> ELSE file[1], offset |-> 0]

\* io.ReadAll(file): the bytes from the offset to the end; the offset ends
\* at the end of the file
ReadAll(h) ==
    [read   |-> SubSeq(h.data, h.offset + 1, Len(h.data)),
     handle |-> [h EXCEPT !.offset = Len(h.data)]]

\* file.Write(b): b replaces the bytes from the offset on and extends the
\* file when it reaches past its end; the offset moves past b
FileWrite(h, b) ==
    [data   |-> SubSeq(h.data, 1, h.offset) \o b
                  \o SubSeq(h.data, h.offset + Len(b) + 1, Len(h.data)),
     offset |-> h.offset + Len(b)]

\* the outcome of one call: the file afterwards, the number of calls of
\* file.Write, and the error returned; short is the number of bytes a
\* failing file.Write still wrote
IdempotentWrite(file, incoming, fault, short) ==
    IF fault = "reader"
    THEN [file |-> file, writes |-> 0, err |-> WriteErrors.reader]
    ELSE IF fault = "open"
    THEN [file |-> file, writes |-> 0, err |-> WriteErrors.open]
    ELSE LET opened == OpenReadWrite(file)
             current == ReadAll(opened)
         IN  IF fault = "read"
             THEN [file |-> <<opened.data>>, writes |-> 0, err |-> WriteErrors.read]
             ELSE IF incoming = current.read
             THEN [file |-> <<opened.data>>, writes |-> 0, err |-> NoErr]
             ELSE IF fault = "write"
             THEN [file   |-> <<FileWrite(current.handle, SubSeq(incoming, 1, short)).data>>,
                   writes |-> 1,
                   err    |-> WriteErrors.write]
             ELSE [file   |-> <<FileWrite(current.handle, incoming).data>>,
                   writes |-> 1,
                   err    |-> NoErr]

WriteInit ==
    /\ guestFile \in {<<>>} \cup {<<c>> : c \in Contents}
    /\ writeCalls = <<>>
    /\ SizesIdle
    /\ PartitionIdle
    /\ ChecksumIdle
    /\ DownloadIdle
    /\ BuildIdle
    /\ ExpandIdle
    /\ CommandIdle
    /\ FlashIdle
    /\ NspawnIdle
    /\ ParseIdle

\* one call of IdempotentWrite on the guest path, as the configure steps make it
CallIdempotentWrite ==
    /\ Len(writeCalls) < MaxWrites
    /\ \E incoming \in Contents, fault \in WriteFaults :
         \E short \in IF fault = "write" /\ incoming # <<>>
                      THEN 0..(Len(incoming) - 1) ELSE {0} :
           LET out == IdempotentWrite(guestFile, incoming, fault, short)
           IN  /\ guestFile' = out.file
               /\ writeCalls' = Append(writeCalls,
                                       [incoming |-> incoming,
                                        before   |-> guestFile,
                                        after    |-> out.file,
                                        writes   |-> out.writes,
                                        err      |-> out.err])
    /\ UNCHANGED notWrite

WriteNext == CallIdempotentWrite

WriteSpec == WriteInit /\ [][WriteNext]_vars

(***************************************************************************)
(* BuildSpec: the image build (cmd/setup main) over media/file.go          *)
(***************************************************************************)
MaxRuns == 3

MaxFaults == 2

Mi(n) == Norm(n, 0)

\* file.go:40  expectedSize = 4 * datasize.GB (datasize.GB = 1 << 30)
expectedSize == Mi(4 * 1024)

\* file.go:167  bufferSize := datasize.MB * 1000 (datasize.MB = 1 << 20)
bufferSize == Mi(1000)

Colon == <<":">>

Ext4 == <<"e", "x", "t", "4">>

Fat32 == <<"f", "a", "t", "3", "2">>

Xfs == <<"x", "f", "s">>

\* file.go:69-75  type PartitionEntry
PartitionRecord(number, start, end, size, fileSystem) ==
    [Number |-> number, Start |-> start, End |-> end, Size |-> size,
     FileSystem |-> fileSystem]

\* PartitionEntry{}
ZeroPartition == PartitionRecord(0, Bytes(0), Bytes(0), Bytes(0), <<>>)

\* the extracted Ubuntu image: a FAT boot partition 1 and a root partition 2
\* that ends where the image ends; rootFs is ext4 in the image as shipped
ImageWith(rootFs) ==
    [size  |-> Mi(3072),
     parts |-> <<PartitionRecord(1, Mi(1), BSub(Mi(257), Bytes(1)), Mi(256), Fat32),
                 PartitionRecord(2, Mi(257), BSub(Mi(3072), Bytes(1)), Mi(2815), rootFs)>>]

\* one partition line of "parted -s -m <device> -- unit B print":
\* number:start:end:size:filesystem:name:flags;
PartitionLine(p) ==
    DecimalText(Bytes(p.Number)) \o Colon
      \o DecimalText(p.Start) \o <<"B">> \o Colon
      \o DecimalText(p.End) \o <<"B">> \o Colon
      \o DecimalText(p.Size) \o <<"B">> \o Colon
      \o p.FileSystem \o Colon \o Colon \o <<";">>

RECURSIVE PartitionLines(_)
PartitionLines(parts) ==
    IF parts = <<>> THEN <<>>
    ELSE PartitionLine(Head(parts)) \o Newline \o PartitionLines(Tail(parts))

\* the machine-readable listing: the unit line, the disk line
\* path:size:transport:sector:sector:table:model; and the partition lines
PartedPrint(name, img) ==
    <<"B", "Y", "T", ";">> \o Newline
      \o <<name>> \o Colon \o DecimalText(img.size) \o <<"B">> \o Colon
      \o <<"loopback">> \o Colon \o <<"5", "1", "2">> \o Colon \o <<"5", "1", "2">> \o Colon
      \o <<"msdos">> \o Colon \o <<"Loopback device">> \o Colon \o <<";">> \o Newline
      \o PartitionLines(img.parts)

\* datasize.Parse on the texts parted prints with unit B: decimal digits
\* followed by the unit B (or no unit); the larger units are not printed
datasizeParse(text) ==
    LET parsed == Atoi(TrimSuffix(text, <<"B">>))
    IN  IF parsed.err = NoErr THEN parsed
        ELSE [value |-> Bytes(0), err |-> "datasize: invalid syntax"]

\* file.go:91-117  the entry built from the fields of an ext4 line
ParseExt4Line(split) ==
    LET number == Atoi(split[1])
        start == datasizeParse(split[2])
        end == datasizeParse(split[3])
        size == datasizeParse(split[4])
    IN  IF number.err # NoErr THEN [entry |-> ZeroPartition, err |-> number.err]
        ELSE IF start.err # NoErr THEN [entry |-> ZeroPartition, err |-> start.err]
        ELSE IF end.err # NoErr THEN [entry |-> ZeroPartition, err |-> end.err]
        ELSE IF size.err # NoErr THEN [entry |-> ZeroPartition, err |-> size.err]
        ELSE [entry |-> PartitionRecord(number.value.mib * byteToMebibyteFactor
                                          + number.value.rem,
                                        start.value, end.value, size.value, split[5]),
              err   |-> NoErr]

RECURSIVE ParseLines(_)
\* file.go:82-119  the loop over the lines; after it, the zero entry
ParseLines(lines) ==
    IF lines = <<>> THEN [entry |-> ZeroPartition, err |-> NoErr]
    ELSE LET split == Split(Head(lines), Colon)
         IN  IF Len(split) # 7 THEN ParseLines(Tail(lines))
             ELSE IF split[5] = Ext4 THEN ParseExt4Line(split)
             ELSE ParseLines(Tail(lines))

\* a reading of the listing from its last line to its first
parsePartedOutput_LastWins(output) ==
    LET lines == Split(output, Newline)
    IN  ParseLines([i \in 1..Len(lines) |-> lines[Len(lines) + 1 - i]])

\* file.go:81  lines := bytes.Split(output, []byte("\n"))
parsePartedOutput(output) == ParseLines(Split(output, Newline))

\* file.go:59-68  type Entry, the fields the program reads
LoopDevice(name, backFile) == [Name |-> name, BackFile |-> backFile]

\* Entry{}
ZeroLoopDevice == LoopDevice("", "")

LoopNames == <<"/dev/loop0", "/dev/loop1", "/dev/loop2", "/dev/loop3">>

\* file.go:177  filepath.Abs(extractName): the working directory joined with
\* the file name, symlinks not resolved
ImagePath == "/home/build/ubuntu.img"

\* the backing file the kernel reports for the image: its resolved path
BackFileOf(symlinked) == IF symlinked THEN "/srv/build/ubuntu.img" ELSE ImagePath

\* losetup -f: the first unused loop device, a new one when all are in use
FirstFree(ls) ==
    IF \E i \in 1..Len(ls) : ls[i] = ""
    THEN CHOOSE i \in 1..Len(ls) : ls[i] = "" /\ \A j \in 1..(i - 1) : ls[j] # ""
    ELSE Len(ls) + 1

\* losetup -Pf <path>
LosetupAttach(ls, backFile) ==
    IF FirstFree(ls) <= Len(ls) THEN [ls EXCEPT ![FirstFree(ls)] = backFile]
    ELSE Append(ls, backFile)

RECURSIVE LosetupListFrom(_, _)
LosetupListFrom(ls, i) ==
    IF i > Len(ls) THEN <<>>
    ELSE (IF ls[i] = "" THEN <<>> ELSE <<LoopDevice(LoopNames[i], ls[i])>>)
           \o LosetupListFrom(ls, i + 1)

\* losetup -lJ: the "loopdevices" array, one entry per attached device
LosetupList(ls) == LosetupListFrom(ls, 1)

RECURSIVE ToMapFrom(_, _)
ToMapFrom(list, devices) ==
    IF list = <<>> THEN devices
    ELSE ToMapFrom(Tail(list), Put(devices, Head(list).BackFile, Head(list)))

\* file.go:52-58  DeviceOutput.ToMap
ToMap(list) == ToMapFrom(list, EmptyMap)

\* devices[path] on a Go map: the zero Entry for a key that is not there
MapIndex(devices, key) ==
    IF key \in DOMAIN devices THEN devices[key] ELSE ZeroLoopDevice

\* file.go:204-206  devices := parsedOutput.ToMap(); return devices[path], nil
ResolveEntry(list, path) == MapIndex(ToMap(list), path)

Attached(ls, name) == \E i \in 1..Len(ls) : LoopNames[i] = name /\ ls[i] # ""

\* losetup --detach <name>
LosetupDetach(ls, name) ==
    [i \in 1..Len(ls) |-> IF LoopNames[i] = name THEN "" ELSE ls[i]]

\* fmt.Sprintf("%sp%d", device.Name, number)
PartitionName(name, number) == <<name, "p", number>>

\* the partition device exists when the loop device is attached (with -P the
\* kernel scans its partitions) and the image has a partition of that number
PartitionExists(ls, img, name, number) ==
    /\ Attached(ls, name)
    /\ \E i \in 1..Len(img.parts) : img.parts[i].Number = number

\* parted <device> resizepart <number> <end> -s
Resizepart(img, number, end) ==
    [img EXCEPT !.parts = [i \in 1..Len(img.parts) |->
                             IF img.parts[i].Number = number
                             THEN [img.parts[i] EXCEPT !.End = end,
                                     !.Size = BAdd(BSub(end, img.parts[i].Start), Bytes(1))]
                             ELSE img.parts[i]]]

Mount(dev, target) == [dev |-> dev, target |-> target]

MountedAt(mt, target) == \E i \in 1..Len(mt) : mt[i].target = target

LastAt(mt, target) ==
    CHOOSE i \in 1..Len(mt) : mt[i].target = target
                                /\ \A j \in (i + 1)..Len(mt) : mt[j].target # target

\* rootMountPoint is mounted and ./mnt/... resolves into the image
RootVisible(mt) == MountedAt(mt, "root")

\* bootMountPoint is a mount point in what is visible under rootMountPoint
BootVisible(mt) ==
    /\ RootVisible(mt)
    /\ \E i \in (LastAt(mt, "root") + 1)..Len(mt) : mt[i].target = "boot"

\* umount <target>: takes the topmost mount off the target; fails on a
\* target that is not a mount point, and on the root while boot is mounted on it
CanUmount(mt, target) ==
    IF target = "boot" THEN BootVisible(mt) ELSE RootVisible(mt) /\ ~BootVisible(mt)

Umount(mt, target) ==
    LET k == LastAt(mt, target)
    IN  SubSeq(mt, 1, k - 1) \o SubSeq(mt, k + 1, Len(mt))

\* whether a partition of the loop device is mounted
InUse(mt, name) == \E i \in 1..Len(mt) : mt[i].dev[1] = name

\* the resolver files of the image as shipped: /etc/resolv.conf is the
\* symlink to ../run/systemd/resolve/stub-resolv.conf (part_001:258)
PristineGuest == [resolv |-> "stub link", backup |-> "absent"]

NoImage == [extracted |-> FALSE, size |-> Bytes(0), parts |-> <<>>, rootFs |-> <<>>]

Extracted(rootFs) ==
    [extracted |-> TRUE, size |-> ImageWith(rootFs).size,
     parts |-> ImageWith(rootFs).parts, rootFs |-> rootFs]

\* the filesystem resized before it is checked
ExpansionNext_CheckLast(op) ==
    CASE op = "parted print" -> "resizepart"
      [] op = "resizepart"   -> "resize2fs"
      [] op = "resize2fs"    -> "e2fsck"
      [] op = "e2fsck"       -> "MkdirAll"

\* the statement that follows a successful one inside FileSystemExpansion
\* (file.go:235-253); after the last one main goes on (setup.go:137)
ExpansionNext(op) ==
    CASE op = "parted print" -> "resizepart"
      [] op = "resizepart"   -> "e2fsck"
      [] op = "e2fsck"       -> "resize2fs"
      [] op = "resize2fs"    -> "MkdirAll"

\* the statement that follows a successful one inside AttachToMountPoint
\* (file.go:261-294); after the last one main goes on (setup.go:143)
AttachNext(op) ==
    CASE op = "MkdirAll"            -> "mount root"
      [] op = "mount root"          -> "mount boot"
      [] op = "mount boot"          -> "Symlink backup"
      [] op = "Symlink backup"      -> "Stat resolvConf"
      [] op = "Stat resolvConf"     -> "Remove mountedResolv"
      [] op = "Remove mountedResolv" -> "ReadFile resolvConf"
      [] op = "ReadFile resolvConf" -> "WriteFile mountedResolv"
      [] op = "WriteFile mountedResolv" -> "KernelSettings"

\* the configuration steps of main in order (setup.go:143-165); after
\* the last one main returns and the deferred function runs
ConfigureNext(op) ==
    CASE op = "KernelSettings"    -> "KernelModules"
      [] op = "KernelModules"     -> "Packages"
      [] op = "Packages"          -> "InstallKubernetes"
      [] op = "InstallKubernetes" -> "CloudInit"
      [] op = "CloudInit"         -> "Fstab"
      [] op = "Fstab"             -> "cleanup: Remove mountedResolv"

\* a teardown that leaves the backup link in the image
CleanUpNext_KeepsBackup(op) ==
    CASE op = "cleanup: Remove mountedResolv"  -> "cleanup: Symlink mountedResolv"
      [] op = "cleanup: Symlink mountedResolv" -> "cleanup: umount boot"
      [] op = "cleanup: Remove backup"         -> "cleanup: umount boot"
      [] op = "cleanup: umount boot"           -> "cleanup: umount root"
      [] op = "cleanup: umount root"           -> "cleanup: losetup --detach"
      [] op = "cleanup: losetup --detach"      -> "return"

\* a teardown that unmounts in the order of mounting
CleanUpNext_RootFirst(op) ==
    CASE op = "cleanup: Remove mountedResolv"  -> "cleanup: Symlink mountedResolv"
      [] op = "cleanup: Symlink mountedResolv" -> "cleanup: Remove backup"
      [] op = "cleanup: Remove backup"         -> "cleanup: umount root"
      [] op = "cleanup: umount root"           -> "cleanup: umount boot"
      [] op = "cleanup: umount boot"           -> "cleanup: losetup --detach"
      [] op = "cleanup: losetup --detach"      -> "return"

\* the statement that follows a successful one inside the teardown, which
\* main calls as media.CleanUp and file.go holds as the first part of
\* CleanupAndCompress (file.go:303-325); "return" after the last one
CleanUpNext(op) ==
    CASE op = "cleanup: Remove mountedResolv"  -> "cleanup: Symlink mountedResolv"
      [] op = "cleanup: Symlink mountedResolv" -> "cleanup: Remove backup"
      [] op = "cleanup: Remove backup"         -> "cleanup: umount boot"
      [] op = "cleanup: umount boot"           -> "cleanup: umount root"
      [] op = "cleanup: umount root"           -> "cleanup: losetup --detach"
      [] op = "cleanup: losetup --detach"      -> "return"

\* the environment fails a step that could have worked, within its budget
Faulty == IF faults < MaxFaults THEN BOOLEAN ELSE {FALSE}

Goto(next) == buildPc' = next /\ outcome' = outcome

\* the process ends: status 0 when main returns, 1 from log.Fatalf,
\* 2 from a panic nothing recovered
Exit(status) == buildPc' = "exited" /\ outcome' = status

\* a cleanup that is deferred without recover() and so never runs for a panic
Panic_NoCleanUp(msg) ==
    /\ panicked' = msg
    /\ Exit("exit 2")

\* log.Panicf in main (setup.go:88-164): the deferred functions run, and the
\* cleanup function is deferred once MountImageToDevice has returned
\* (setup.go:102-131)
Panic(msg) ==
    /\ panicked' = msg
    /\ IF loopEntry = <<>> THEN Exit("exit 2")
       ELSE Goto("cleanup: Remove mountedResolv")

World(l, m, g) == loops' = l /\ mountTable' = m /\ guest' = g

\* the step worked: the next statement
Proceed(next, l, m, g) ==
    /\ World(l, m, g)
    /\ Goto(next)
    /\ UNCHANGED <<panicked, loopEntry, partition, image>>

\* the step returned an error and main panics with it
Abort(msg, l, m, g) ==
    /\ World(l, m, g)
    /\ Panic(msg)
    /\ UNCHANGED <<loopEntry, partition, image>>

\* log.Fatalf in the deferred function (setup.go:112, 117, 122, 126)
Fatal(l, m, g) ==
    /\ World(l, m, g)
    /\ Exit("exit 1")
    /\ UNCHANGED <<panicked, loopEntry, partition, image>>

\* an entry of the record of operations: what ran, whether it worked,
\* whether the environment failed it, and the guest's resolver file before it
Ran(op, ok, fault) == [op |-> op, ok |-> ok, fault |-> fault, resolv |-> guest.resolv]

\* one statement that calls the operating system: broken says that it
\* cannot work in the current state, otherwise the environment may fail it
Step(here, broken, Done, Fail) ==
    /\ buildPc = here
    /\ \E fault \in IF broken THEN {FALSE} ELSE Faulty :
         /\ faults' = faults + (IF fault THEN 1 ELSE 0)
         /\ ops' = Append(ops, Ran(here, ~broken /\ ~fault, fault))
         /\ IF ~broken /\ ~fault THEN Done ELSE Fail
    /\ UNCHANGED <<runs, viaSymlink, notBuild>>

Device == loopEntry[1]

BuildInit ==
    /\ buildPc = "idle"
    /\ runs = 0
    /\ faults = 0
    /\ image \in {[NoImage EXCEPT !.rootFs = fs] : fs \in {Ext4, Xfs}}
    /\ viaSymlink \in BOOLEAN
    /\ loops = <<>>
    /\ mountTable = <<>>
    /\ guest = [resolv |-> "absent", backup |-> "absent"]
    /\ loopEntry = <<>>
    /\ partition = <<>>
    /\ ops = <<>>
    /\ panicked = NoErr
    /\ outcome = "none"
    /\ SizesIdle
    /\ PartitionIdle
    /\ ChecksumIdle
    /\ DownloadIdle
    /\ WriteIdle
    /\ ExpandIdle
    /\ CommandIdle
    /\ FlashIdle
    /\ NspawnIdle
    /\ ParseIdle

\* a build process starts (setup.go:41); earlier processes have ended
StartBuild ==
    /\ buildPc \in {"idle", "exited"}
    /\ runs < MaxRuns
    /\ runs' = runs + 1
    /\ buildPc' = "DownloadAndVerifyMedia"
    /\ loopEntry' = <<>>
    /\ partition' = <<>>
    /\ ops' = <<>>
    /\ panicked' = NoErr
    /\ outcome' = "none"
    /\ UNCHANGED <<faults, image, viaSymlink, loops, mountTable, guest, notBuild>>

\* setup.go:87-89
DownloadAndVerify ==
    Step("DownloadAndVerifyMedia", FALSE,
         Proceed("ExtractImage", loops, mountTable, guest),
         Abort("error with downloading media", loops, mountTable, guest))

\* setup.go:93-96 and file.go:124-145: an image extracted earlier is used as
\* it is, otherwise xz writes the image as shipped
ExtractImage ==
    /\ buildPc = "ExtractImage"
    /\ IF image.extracted
       THEN /\ Proceed("ExpandSize", loops, mountTable, guest)
            /\ UNCHANGED <<faults, ops>>
       ELSE \E fault \in Faulty :
              /\ faults' = faults + (IF fault THEN 1 ELSE 0)
              /\ ops' = Append(ops, Ran("xz -d -k", ~fault, fault))
              /\ IF fault
                 THEN Abort("error decompressing image", loops, mountTable, guest)
                 ELSE /\ image' = Extracted(image.rootFs)
                      /\ World(loops, mountTable, PristineGuest)
                      /\ Goto("ExpandSize")
                      /\ UNCHANGED <<panicked, loopEntry, partition>>
    /\ UNCHANGED <<runs, viaSymlink, notBuild>>

\* setup.go:97-100 and file.go:147-170
ExpandSize ==
    /\ buildPc = "ExpandSize"
    /\ \E fault \in Faulty :
         /\ faults' = faults + (IF fault THEN 1 ELSE 0)
         /\ ops' = Append(ops, Ran("ExpandSize", ~fault, fault))
         /\ IF fault
            THEN Abort("error expanding image size", loops, mountTable, guest)
            ELSE /\ image' = IF BLess(expectedSize, image.size) THEN image
                             ELSE [image EXCEPT !.size = BAdd(bufferSize, image.size)]
                 /\ World(loops, mountTable, guest)
                 /\ Goto("losetup -Pf")
                 /\ UNCHANGED <<panicked, loopEntry, partition>>
    /\ UNCHANGED <<runs, viaSymlink, notBuild>>

\* file.go:181-185  losetup -Pf <path>
LosetupPf ==
    Step("losetup -Pf", FALSE,
         Proceed("losetup -lJ", LosetupAttach(loops, BackFileOf(viaSymlink)),
                 mountTable, guest),
         Abort("error mounting image", loops, mountTable, guest))

\* file.go:187-206 and setup.go:102-131: the listing is decoded, the entry
\* of the image path is looked up and returned, and main defers the cleanup
LosetupLJ ==
    /\ buildPc = "losetup -lJ"
    /\ \E fault \in Faulty :
         /\ faults' = faults + (IF fault THEN 1 ELSE 0)
         /\ ops' = Append(ops, Ran("losetup -lJ", ~fault, fault))
         /\ IF fault
            THEN Abort("error mounting image", loops, mountTable, guest)
            ELSE /\ loopEntry' = <<ResolveEntry(LosetupList(loops), ImagePath)>>
                 /\ World(loops, mountTable, guest)
                 /\ Goto("parted print")
                 /\ UNCHANGED <<panicked, partition, image>>
    /\ UNCHANGED <<runs, viaSymlink, notBuild>>

\* file.go:215-233: a listing command that fails makes FileSystemExpansion
\* return nil; a listing that does not parse makes it return the error
PartedPrintStep ==
    /\ buildPc = "parted print"
    /\ \E fault \in IF Attached(loops, Device.Name) THEN Faulty ELSE {FALSE} :
         LET ok == Attached(loops, Device.Name) /\ ~fault
             parsed == parsePartedOutput(PartedPrint(Device.Name, image))
         IN  /\ faults' = faults + (IF fault THEN 1 ELSE 0)
             /\ ops' = Append(ops, Ran("parted print", ok, fault))
             /\ World(loops, mountTable, guest)
             /\ UNCHANGED <<loopEntry, image>>
             /\ IF ~ok
                THEN Goto("MkdirAll") /\ UNCHANGED <<panicked, partition>>
                ELSE /\ partition' = <<parsed.entry>>
                     /\ IF parsed.err # NoErr
                        THEN Panic("error expanding file system")
                        ELSE Goto(ExpansionNext("parted print")) /\ UNCHANGED panicked
    /\ UNCHANGED <<runs, viaSymlink, notBuild>>

Partition == partition[1]

\* file.go:235-240  parted <device> resizepart <Number> <End>B -s
ResizepartStep ==
    /\ buildPc = "resizepart"
    /\ \E fault \in IF PartitionExists(loops, image, Device.Name, Partition.Number)
                    THEN Faulty ELSE {FALSE} :
         LET ok == PartitionExists(loops, image, Device.Name, Partition.Number) /\ ~fault
         IN  /\ faults' = faults + (IF fault THEN 1 ELSE 0)
             /\ ops' = Append(ops, Ran("resizepart", ok, fault))
             /\ IF ok
                THEN /\ image' = Resizepart(image, Partition.Number, Partition.End)
                     /\ World(loops, mountTable, guest)
                     /\ Goto(ExpansionNext("resizepart"))
                     /\ UNCHANGED <<panicked, loopEntry, partition>>
                ELSE Abort("error expanding file system", loops, mountTable, guest)
    /\ UNCHANGED <<runs, viaSymlink, notBuild>>

\* file.go:242-247  e2fsck -pf <device>p<Number>
E2fsck ==
    Step("e2fsck", ~PartitionExists(loops, image, Device.Name, Partition.Number),
         Proceed(ExpansionNext("e2fsck"), loops, mountTable, guest),
         Abort("error expanding file system", loops, mountTable, guest))

\* file.go:249-253  resize2fs <device>p<Number>
Resize2fs ==
    Step("resize2fs", ~PartitionExists(loops, image, Device.Name, Partition.Number),
         Proceed(ExpansionNext("resize2fs"), loops, mountTable, guest),
         Abort("error expanding file system", loops, mountTable, guest))

\* file.go:261-263  fileSystem.MkdirAll(bootMountPoint, 0751)
MkdirAll ==
    Step("MkdirAll", FALSE,
         Proceed(AttachNext("MkdirAll"), loops, mountTable, guest),
         Abort("error mounting image", loops, mountTable, guest))

\* file.go:265-267  mount <device>p2 ./mnt
MountRoot ==
    Step("mount root", ~PartitionExists(loops, image, Device.Name, 2),
         Proceed(AttachNext("mount root"), loops,
                 Append(mountTable, Mount(PartitionName(Device.Name, 2), "root")), guest),
         Abort("error mounting image", loops, mountTable, guest))

\* file.go:269-271  mount <device>p1 ./mnt/boot/firmware
MountBoot ==
    Step("mount boot", ~PartitionExists(loops, image, Device.Name, 1),
         Proceed(AttachNext("mount boot"), loops,
                 Append(mountTable, Mount(PartitionName(Device.Name, 1), "boot")), guest),
         Abort("error mounting image", loops, mountTable, guest))

\* file.go:273-275  os.Symlink("../run/systemd/resolve/stub-resolv.conf", mountedResolvBackup)
SymlinkBackup ==
    Step("Symlink backup", ~RootVisible(mountTable) \/ guest.backup # "absent",
         Proceed(AttachNext("Symlink backup"), loops, mountTable,
                 [guest EXCEPT !.backup = "stub link"]),
         Abort("error mounting image", loops, mountTable, guest))

\* file.go:277-280  fileSystem.Stat(resolvConf)
StatResolvConf ==
    Step("Stat resolvConf", FALSE,
         Proceed(AttachNext("Stat resolvConf"), loops, mountTable, guest),
         Abort("error mounting image", loops, mountTable, guest))

\* file.go:282-284  fileSystem.Remove(mountedResolv)
RemoveMountedResolv ==
    Step("Remove mountedResolv", ~RootVisible(mountTable) \/ guest.resolv = "absent",
         Proceed(AttachNext("Remove mountedResolv"), loops, mountTable,
                 [guest EXCEPT !.resolv = "absent"]),
         Abort("error mounting image", loops, mountTable, guest))

\* file.go:286-289  afero.ReadFile(fileSystem, resolvConf)
ReadResolvConf ==
    Step("ReadFile resolvConf", FALSE,
         Proceed(AttachNext("ReadFile resolvConf"), loops, mountTable, guest),
         Abort("error mounting image", loops, mountTable, guest))

\* file.go:291-293  afero.WriteFile(fileSystem, mountedResolv, resolve, mode):
\* a write that fails may have created the file and written part of it
WriteMountedResolv ==
    Step("WriteFile mountedResolv", ~RootVisible(mountTable),
         Proceed(AttachNext("WriteFile mountedResolv"), loops, mountTable,
                 [guest EXCEPT !.resolv = "host copy"]),
         \E partial \in {guest.resolv, "host copy"} :
            Abort("error mounting image", loops, mountTable,
                  [guest EXCEPT !.resolv = partial]))

\* one configuration step of main (setup.go:143-165)
Configure(step, msg) ==
    Step(step, FALSE,
         Proceed(ConfigureNext(step), loops, mountTable, guest),
         Abort(msg, loops, mountTable, guest))

KernelSettings == Configure("KernelSettings", "error configuring kernel settings")

KernelModules == Configure("KernelModules", "error configuring modules and sysctls")

Packages == Configure("Packages", "error installing packages")

InstallKubernetes == Configure("InstallKubernetes", "error installing Kubernetes")

CloudInit == Configure("CloudInit", "error configuring cloudinit drop in files")

Fstab == Configure("Fstab", "error configuring fstab")

\* the teardown returned nil (setup.go:108-119): a recovered panic ends the
\* deferred function and main returns, otherwise the image is compressed
AfterCleanUp(next) ==
    IF next # "return" THEN Goto(next)
    ELSE IF panicked # NoErr THEN Exit("exit 0")
    ELSE Goto("CompressImage")

CleanUpStepDone(next, l, m, g) ==
    /\ World(l, m, g)
    /\ AfterCleanUp(next)
    /\ UNCHANGED <<panicked, loopEntry, partition, image>>

\* file.go:303-305  fileSystem.Remove(mountedResolv)
CleanUpRemoveResolv ==
    Step("cleanup: Remove mountedResolv",
         ~RootVisible(mountTable) \/ guest.resolv = "absent",
         CleanUpStepDone(CleanUpNext("cleanup: Remove mountedResolv"), loops, mountTable,
                         [guest EXCEPT !.resolv = "absent"]),
         Fatal(loops, mountTable, guest))

\* file.go:307-309  os.Symlink("../run/systemd/resolve/stub-resolv.conf", mountedResolv)
CleanUpSymlinkResolv ==
    Step("cleanup: Symlink mountedResolv",
         ~RootVisible(mountTable) \/ guest.resolv # "absent",
         CleanUpStepDone(CleanUpNext("cleanup: Symlink mountedResolv"), loops, mountTable,
                         [guest EXCEPT !.resolv = "stub link"]),
         Fatal(loops, mountTable, guest))

\* file.go:311-313  os.Remove(mountedResolvBackup)
CleanUpRemoveBackup ==
    Step("cleanup: Remove backup",
         ~RootVisible(mountTable) \/ guest.backup = "absent",
         CleanUpStepDone(CleanUpNext("cleanup: Remove backup"), loops, mountTable,
                         [guest EXCEPT !.backup = "absent"]),
         Fatal(loops, mountTable, guest))

\* file.go:315-317  umount ./mnt/boot/firmware
CleanUpUmountBoot ==
    Step("cleanup: umount boot", ~CanUmount(mountTable, "boot"),
         CleanUpStepDone(CleanUpNext("cleanup: umount boot"), loops,
                         Umount(mountTable, "boot"), guest),
         Fatal(loops, mountTable, guest))

\* file.go:319-321  umount ./mnt
CleanUpUmountRoot ==
    Step("cleanup: umount root", ~CanUmount(mountTable, "root"),
         CleanUpStepDone(CleanUpNext("cleanup: umount root"), loops,
                         Umount(mountTable, "root"), guest),
         Fatal(loops, mountTable, guest))

\* file.go:323-325  losetup --detach <device>
CleanUpDetach ==
    Step("cleanup: losetup --detach",
         ~Attached(loops, Device.Name) \/ InUse(mountTable, Device.Name),
         CleanUpStepDone(CleanUpNext("cleanup: losetup --detach"),
                         LosetupDetach(loops, Device.Name), mountTable, guest),
         Fatal(loops, mountTable, guest))

\* setup.go:120-123 and file.go:327-358: the image is renamed and compressed
CompressImage ==
    /\ buildPc = "CompressImage"
    /\ \E fault \in Faulty :
         /\ faults' = faults + (IF fault THEN 1 ELSE 0)
         /\ ops' = Append(ops, Ran("CompressImage", ~fault, fault))
         /\ IF fault
            THEN Fatal(loops, mountTable, guest)
            ELSE /\ image' = [NoImage EXCEPT !.rootFs = image.rootFs]
                 /\ World(loops, mountTable, guest)
                 /\ Goto("UploadImage")
                 /\ UNCHANGED <<panicked, loopEntry, partition>>
    /\ UNCHANGED <<runs, viaSymlink, notBuild>>

\* setup.go:125-128
UploadImage ==
    /\ buildPc = "UploadImage"
    /\ \E fault \in Faulty :
         /\ faults' = faults + (IF fault THEN 1 ELSE 0)
         /\ ops' = Append(ops, Ran("UploadImage", ~fault, fault))
         /\ World(loops, mountTable, guest)
         /\ Exit(IF fault THEN "exit 1" ELSE "exit 0")
         /\ UNCHANGED <<panicked, loopEntry, partition, image>>
    /\ UNCHANGED <<runs, viaSymlink, notBuild>>

BuildNext ==
    \/ StartBuild
    \/ DownloadAndVerify
    \/ ExtractImage
    \/ ExpandSize
    \/ LosetupPf
    \/ LosetupLJ
    \/ PartedPrintStep
    \/ ResizepartStep
    \/ E2fsck
    \/ Resize2fs
    \/ MkdirAll
    \/ MountRoot
    \/ MountBoot
    \/ SymlinkBackup
    \/ StatResolvConf
    \/ RemoveMountedResolv
    \/ ReadResolvConf
    \/ WriteMountedResolv
    \/ KernelSettings
    \/ KernelModules
    \/ Packages
    \/ InstallKubernetes
    \/ CloudInit
    \/ Fstab
    \/ CleanUpRemoveResolv
    \/ CleanUpSymlinkResolv
    \/ CleanUpRemoveBackup
    \/ CleanUpUmountBoot
    \/ CleanUpUmountRoot
    \/ CleanUpDetach
    \/ CompressImage
    \/ UploadImage

BuildSpec == BuildInit /\ [][BuildNext]_vars

(***************************************************************************)
(* ExpandSpec: media.ExpandSize applied to the extracted image file        *)
(***************************************************************************)
MaxExpands == 2

\* the sizes the image file starts with, in MiB and odd bytes: around the
\* threshold, around the threshold less the increment, and far from both
InitialMiB == {0, 1000, 3072, 3095, 3096, 4095, 4096, 5000}

InitialRem == {0, 1, byteToMebibyteFactor - 1}

InitialSizes == {Norm(m, r) : m \in InitialMiB, r \in InitialRem}

ExpandFaults == {"none", "open", "truncate"}

ExpandErrors == [stat     |-> "stat: no such file or directory",
                 open     |-> "open: permission denied",
                 truncate |-> "truncate: no space left on device"]

\* file.go:160  info.Size() > int64(expectedSize.Bytes())
NeedsNoPadding(size) == BLess(expectedSize, size)

\* file.go:167-168  newSize := int64(bufferSize.Bytes()) + info.Size()
PaddedSize(size) == BAdd(bufferSize, size)

\* file.go:147-170  ExpandSize on the file as it is: the file afterwards and
\* the error returned
ExpandSizeOf(file, fault) ==
    IF file = <<>> THEN [file |-> file, err |-> ExpandErrors.stat]
    ELSE IF NeedsNoPadding(file[1]) THEN [file |-> file, err |-> NoErr]
    ELSE IF fault = "open" THEN [file |-> file, err |-> ExpandErrors.open]
    ELSE IF fault = "truncate" THEN [file |-> file, err |-> ExpandErrors.truncate]
    ELSE [file |-> <<PaddedSize(file[1])>>, err |-> NoErr]

ExpandInit ==
    /\ imgFile \in {<<>>} \cup {<<s>> : s \in InitialSizes}
    /\ expandCalls = <<>>
    /\ SizesIdle
    /\ PartitionIdle
    /\ ChecksumIdle
    /\ DownloadIdle
    /\ WriteIdle
    /\ BuildIdle
    /\ CommandIdle
    /\ FlashIdle
    /\ NspawnIdle
    /\ ParseIdle

\* one call of ExpandSize (setup.go:97)
CallExpandSize ==
    /\ Len(expandCalls) < MaxExpands
    /\ \E fault \in ExpandFaults :
         LET r == ExpandSizeOf(imgFile, fault)
         IN  /\ imgFile' = r.file
             /\ expandCalls' = Append(expandCalls,
                                      [before |-> imgFile, after |-> r.file, err |-> r.err])
    /\ UNCHANGED notExpand

ExpandNext == CallExpandSize

ExpandSpec == ExpandInit /\ [][ExpandNext]_vars

(***************************************************************************)
(* CommandSpec: partition.partedCommand applied to a device and options    *)
(***************************************************************************)
MaxOptions == 3

CommandDevices == {"", "/dev/sdb", "/dev/loop8"}

OptionWords == {"mktable", "msdos", "-s"}

CommandInit ==
    /\ cmdInput \in {<<[device |-> d, options |-> o]>> :
                        d \in CommandDevices, o \in SeqsUpTo(OptionWords, MaxOptions)}
    /\ cmdBuilt = <<>>
    /\ SizesIdle
    /\ PartitionIdle
    /\ ChecksumIdle
    /\ DownloadIdle
    /\ WriteIdle
    /\ BuildIdle
    /\ ExpandIdle
    /\ FlashIdle
    /\ NspawnIdle
    /\ ParseIdle

\* partition_test.go:80  actual := partedCommand(tt.input[0], tt.input[1], tt.input[2])
CallPartedCommand ==
    /\ cmdBuilt = <<>>
    /\ cmdBuilt' = <<partedCommand(cmdInput[1].device, cmdInput[1].options)>>
    /\ UNCHANGED <<cmdInput, notCmd>>

CommandNext == CallPartedCommand

CommandSpec == CommandInit /\ [][CommandNext]_vars

(***************************************************************************)
(* FlashSpec: cmd/flash main: validation, confirmation, the image files,   *)
(* partition.CreateTable / CreateLogicalVolumes / CreateFileSystems on the *)
(* target, the loop device and mounts of the image, media.MountMedia and   *)
(* media.Flash.  One action per called function, one statement per step.   *)
(***************************************************************************)
MaxFlowFaults == 1

DevPrefix == <<"/", "d", "e", "v">>

\* the --device arguments: none, a bare name, a block device path, and a
\* path that holds "/dev" but does not start with it
DeviceArgs ==
    {<<>>,
     <<"s", "d", "b">>,
     <<"/", "d", "e", "v", "/", "s", "d", "b">>,
     <<"/", "m", "n", "t", "/", "d", "e", "v">>}

ImageArgs == {<<>>, <<"u", ".", "z", "s", "t">>}

\* what fmt.Scan hands back: the first word typed, or an error and no word
Replies ==
    {[text |-> t, err |-> NoErr] : t \in {<<"y">>, <<"Y">>, <<"n">>, <<"y", "e", "s">>}}
      \cup {[text |-> <<>>, err |-> "unexpected newline"], [text |-> <<>>, err |-> "EOF"]}

\* strings.Contains
Contains(s, substr) == Index(s, substr) # 0

\* strings.HasPrefix
HasPrefix(s, prefix) == Len(s) >= Len(prefix) /\ SubSeq(s, 1, Len(prefix)) = prefix

\* flash.go:50  *outputDevice == "" || !strings.Contains(*outputDevice, "/dev")
ValidDevice(d) == ~(d = <<>> \/ ~Contains(d, DevPrefix))

\* simple case folding of the letters that can be typed here
Fold(c) ==
    CASE c = "Y" -> "y"
      [] c = "N" -> "n"
      [] c = "E" -> "e"
      [] c = "S" -> "s"
      [] OTHER   -> c

\* strings.EqualFold
EqualFold(s, t) == Len(s) = Len(t) /\ \A i \in 1..Len(s) : Fold(s[i]) = Fold(t[i])

\* part_000:283-291  ConfirmDialog
ConfirmDialog(r) ==
    IF r.err # NoErr THEN FALSE ELSE EqualFold(r.text, <<"y">>)

\* part_000:254-256  fmt.Sprintf("/dev/mapper/%s-%s", VolumeGroupName, volumeName)
MapperName(volumeName) == <<"/dev/mapper/", VolumeGroupName, "-", volumeName>>

\* fmt.Sprintf("%s1", device), fmt.Sprintf("%s2", device)
PartNode(dev, number) == <<dev, number>>

\* the target as the run finds it: with or without a partition, and with or
\* without a device-mapper node that the host already has under the name
\* MapperName("")
Targets ==
    {[parts |-> ps, lvmFlag |-> FALSE, pv |-> FALSE, vg |-> FALSE, mapper |-> mp,
      fs |-> {}, synced |-> {}] :
        ps \in {<<>>, <<"ext4">>}, mp \in {{}, {MapperName("")}}}

PartExists(t, number) == number <= Len(t.parts)

\* flash.go:37  decompressedImageFileName, as filepath.Abs gives it
FlashImagePath == "/home/build/image-to-be-flashed.img"

FlowFaulty == IF flowFaults < MaxFlowFaults THEN BOOLEAN ELSE {FALSE}

FlowGoto(next) == flowPc' = next /\ flowOutcome' = flowOutcome

\* the process ends: status 0 when main returns, 2 from a panic
FlowExit(status) == flowPc' = "exited" /\ flowOutcome' = status

FlowWorld(t, l, m) == targetDev' = t /\ flowLoops' = l /\ flowMounts' = m

\* one statement that calls the operating system with the operand arg:
\* broken says that it cannot work in the current state, otherwise the
\* environment may fail it; every error ends in log.Panicf, which nothing
\* recovers (flash.go:63-141)
FlowCall(here, arg, broken, Done) ==
    /\ flowPc = here
    /\ \E fault \in IF broken THEN {FALSE} ELSE FlowFaulty :
         /\ flowFaults' = flowFaults + (IF fault THEN 1 ELSE 0)
         /\ flowOps' = Append(flowOps, [op |-> here, arg |-> arg, ok |-> ~broken /\ ~fault])
         /\ IF ~broken /\ ~fault THEN Done
            ELSE /\ FlowWorld(targetDev, flowLoops, flowMounts)
                 /\ FlowExit("exit 2")
                 /\ UNCHANGED <<hostFiles, flowEntry>>
    /\ UNCHANGED <<imageArg, deviceArg, reply, notFlow>>

\* a statement that changes the target, the loop devices or the mounts
FlowStep(here, arg, broken, next, t, l, m) ==
    FlowCall(here, arg, broken,
             /\ FlowWorld(t, l, m)
             /\ FlowGoto(next)
             /\ UNCHANGED <<hostFiles, flowEntry>>)

\* a statement that changes nothing the model keeps
FlowCheck(here, next) == FlowStep(here, <<>>, FALSE, next, targetDev, flowLoops, flowMounts)

FlashInit ==
    /\ flowPc = "imageName"
    /\ imageArg \in ImageArgs
    /\ deviceArg \in DeviceArgs
    /\ reply \in Replies
    /\ flowFaults = 0
    /\ hostFiles \in SUBSET {"image", "decompressed"}
    /\ targetDev \in Targets
    /\ flowLoops = <<>>
    /\ flowMounts = <<>>
    /\ flowEntry = <<>>
    /\ flowOps = <<>>
    /\ flowOutcome = "none"
    /\ SizesIdle
    /\ PartitionIdle
    /\ ChecksumIdle
    /\ DownloadIdle
    /\ WriteIdle
    /\ BuildIdle
    /\ ExpandIdle
    /\ CommandIdle
    /\ NspawnIdle
    /\ ParseIdle

FlowQuiet == UNCHANGED <<imageArg, deviceArg, reply, flowFaults, hostFiles, targetDev,
                         flowLoops, flowMounts, flowEntry, flowOps, notFlow>>

\* flash.go:46-48
CheckImageName ==
    /\ flowPc = "imageName"
    /\ IF imageArg = <<>> THEN FlowExit("exit 2") ELSE FlowGoto("outputDevice")
    /\ FlowQuiet

\* flash.go:50-52
CheckOutputDevice ==
    /\ flowPc = "outputDevice"
    /\ IF ValidDevice(deviceArg) THEN FlowGoto("ConfirmDialog") ELSE FlowExit("exit 2")
    /\ FlowQuiet

\* flash.go:54-58
Confirm ==
    /\ flowPc = "ConfirmDialog"
    /\ IF ConfirmDialog(reply) THEN FlowGoto("Exists image") ELSE FlowExit("exit 0")
    /\ FlowQuiet

\* flash.go:63-84: the compressed image is fetched unless it is there
FetchImage ==
    \/ FlowCheck("Exists image",
                 IF "image" \in hostFiles THEN "Exists decompressed" ELSE "storage.NewClient")
    \/ FlowCheck("storage.NewClient", "NewReader")
    \/ FlowCheck("NewReader", "WriteReader")
    \/ FlowCall("WriteReader", <<>>, FALSE,
                /\ hostFiles' = hostFiles \cup {"image"}
                /\ FlowWorld(targetDev, flowLoops, flowMounts)
                /\ FlowGoto("Exists decompressed")
                /\ UNCHANGED flowEntry)

\* flash.go:86-111: the image is decompressed unless that was done before
Decompress ==
    \/ FlowCheck("Exists decompressed",
                 IF "decompressed" \in hostFiles THEN "GetPartitionTable" ELSE "Open image")
    \/ FlowCheck("Open image", "zstd.NewReader")
    \/ FlowCheck("zstd.NewReader", "Create decompressed")
    \/ FlowCall("Create decompressed", <<>>, FALSE,
                /\ hostFiles' = hostFiles \cup {"decompressed"}
                /\ FlowWorld(targetDev, flowLoops, flowMounts)
                /\ FlowGoto("WriteTo")
                /\ UNCHANGED flowEntry)
    \/ FlowCheck("WriteTo", "GetPartitionTable")

\* flash.go:113-115 and partition.go:393-424: the listing of the target and
\* the empty-table guard, then the four parted commands
CreateTable ==
    \/ FlowStep("GetPartitionTable", deviceArg, targetDev.parts # <<>>, "mktable",
                targetDev, flowLoops, flowMounts)
    \/ FlowStep("mktable", deviceArg, FALSE, "mkpart boot",
                [targetDev EXCEPT !.parts = <<>>], flowLoops, flowMounts)
    \/ FlowStep("mkpart boot", deviceArg, FALSE, "mkpart root",
                [targetDev EXCEPT !.parts = Append(@, "fat32")], flowLoops, flowMounts)
    \/ FlowStep("mkpart root", deviceArg, FALSE, "set lvm",
                [targetDev EXCEPT !.parts = Append(@, "ext4")], flowLoops, flowMounts)
    \/ FlowStep("set lvm", deviceArg, ~PartExists(targetDev, 2), "pvcreate",
                [targetDev EXCEPT !.lvmFlag = TRUE], flowLoops, flowMounts)

\* lvcreate ... rootvg -n <name>: the volume and its device-mapper node
LvCreated(t, name) == [t EXCEPT !.mapper = @ \cup {MapperName(name)}]

\* flash.go:117-119 and partition.go:427-477
CreateLogicalVolumes ==
    \/ FlowStep("pvcreate", PartNode(deviceArg, "2"), ~PartExists(targetDev, 2), "vgcreate",
                [targetDev EXCEPT !.pv = TRUE], flowLoops, flowMounts)
    \/ FlowStep("vgcreate", PartNode(deviceArg, "2"), ~targetDev.pv, "vgs",
                [targetDev EXCEPT !.vg = TRUE], flowLoops, flowMounts)
    \/ FlowStep("vgs", <<>>, ~targetDev.vg, "lvcreate root",
                targetDev, flowLoops, flowMounts)
    \/ FlowStep("lvcreate root", MapperName(RootLogicalVolume), ~targetDev.vg, "lvcreate csi",
                LvCreated(targetDev, RootLogicalVolume), flowLoops, flowMounts)
    \/ FlowStep("lvcreate csi", MapperName(CSILogicalVolume), ~targetDev.vg,
                "lvcreate containerd",
                LvCreated(targetDev, CSILogicalVolume), flowLoops, flowMounts)
    \/ FlowStep("lvcreate containerd", MapperName(ContainerdVolume), ~targetDev.vg,
                "mkfs.vfat",
                LvCreated(targetDev, ContainerdVolume), flowLoops, flowMounts)

\* mkfs on a device node
Formatted(t, node) == [t EXCEPT !.fs = @ \cup {node}]

MkfsExt4(here, volume, next) ==
    FlowStep(here, MapperName(volume), MapperName(volume) \notin targetDev.mapper, next,
             Formatted(targetDev, MapperName(volume)), flowLoops, flowMounts)

\* flash.go:121-123 and partition.go:479-507
CreateFileSystems ==
    \/ FlowStep("mkfs.vfat", PartNode(deviceArg, "1"), ~PartExists(targetDev, 1),
                "mkfs.ext4 root",
                Formatted(targetDev, PartNode(deviceArg, "1")), flowLoops, flowMounts)
    \/ MkfsExt4("mkfs.ext4 root", RootLogicalVolume, "mkfs.ext4 csi")
    \/ MkfsExt4("mkfs.ext4 csi", CSILogicalVolume, "mkfs.ext4 containerd")
    \/ MkfsExt4("mkfs.ext4 containerd", ContainerdVolume, "losetup -Pf")

\* flash.go:125-128 and file.go:172-208
MountImage ==
    \/ FlowStep("losetup -Pf", FlashImagePath, FALSE, "losetup -lJ",
                targetDev, LosetupAttach(flowLoops, FlashImagePath), flowMounts)
    \/ FlowCall("losetup -lJ", <<>>, FALSE,
                /\ flowEntry' = <<ResolveEntry(LosetupList(flowLoops), FlashImagePath)>>
                /\ FlowWorld(targetDev, flowLoops, flowMounts)
                /\ FlowGoto("MkdirAll")
                /\ UNCHANGED hostFiles)

FlowDevice == flowEntry[1]

\* flash.go:130-132 and file.go:261-271: the mounts of the image; the
\* resolver files are left alone in this flow (the last argument is false)
AttachImage ==
    \/ FlowCheck("MkdirAll", "mount root")
    \/ FlowStep("mount root", PartitionName(FlowDevice.Name, 2),
                ~Attached(flowLoops, FlowDevice.Name), "mount boot",
                targetDev, flowLoops,
                Append(flowMounts, Mount(PartitionName(FlowDevice.Name, 2), "root")))
    \/ FlowStep("mount boot", PartitionName(FlowDevice.Name, 1),
                ~Attached(flowLoops, FlowDevice.Name), "MkdirAll mediaRoot",
                targetDev, flowLoops,
                Append(flowMounts, Mount(PartitionName(FlowDevice.Name, 1), "boot")))

\* part_002:39  utility.MapperName("")
MediaRootVolume == ""

\* part_002:35-51  the statement that follows a successful one in MountMedia
MountMediaNext(op) ==
    CASE op = "MkdirAll mediaRoot"  -> "mount mediaRoot"
      [] op = "mount mediaRoot"     -> "MkdirAll mediaBoot"
      [] op = "MkdirAll mediaBoot"  -> "mount mediaBoot"
      [] op = "mount mediaBoot"     -> "rsync boot"

\* flash.go:134-136 and part_002:33-52
MountMedia ==
    \/ FlowCheck("MkdirAll mediaRoot", MountMediaNext("MkdirAll mediaRoot"))
    \/ FlowStep("mount mediaRoot", MapperName(MediaRootVolume),
                MapperName(MediaRootVolume) \notin targetDev.mapper,
                MountMediaNext("mount mediaRoot"),
                targetDev, flowLoops,
                Append(flowMounts, Mount(MapperName(MediaRootVolume), "mediaRoot")))
    \/ FlowCheck("MkdirAll mediaBoot", MountMediaNext("MkdirAll mediaBoot"))
    \/ FlowStep("mount mediaBoot", PartNode(deviceArg, "1"), ~PartExists(targetDev, 1),
                MountMediaNext("mount mediaBoot"),
                targetDev, flowLoops,
                Append(flowMounts, Mount(PartNode(deviceArg, "1"), "mediaBoot")))

\* flash.go:138-142 and part_002:54-63: the two rsync runs; then main returns
\* with nothing deferred that unmounts or detaches (flash.go:142)
Flash ==
    \/ FlowStep("rsync boot", <<>>, FALSE, "rsync root",
                [targetDev EXCEPT !.synced = @ \cup {"boot"}], flowLoops, flowMounts)
    \/ FlowCall("rsync root", <<>>, FALSE,
                /\ FlowWorld([targetDev EXCEPT !.synced = @ \cup {"root"}],
                             flowLoops, flowMounts)
                /\ FlowExit("exit 0")
                /\ UNCHANGED <<hostFiles, flowEntry>>)

FlashNext ==
    \/ CheckImageName
    \/ CheckOutputDevice
    \/ Confirm
    \/ FetchImage
    \/ Decompress
    \/ CreateTable
    \/ CreateLogicalVolumes
    \/ CreateFileSystems
    \/ MountImage
    \/ AttachImage
    \/ MountMedia
    \/ Flash

FlashSpec == FlashInit /\ [][FlashNext]_vars

(***************************************************************************)
(* NspawnSpec: the guest commands of configure.Packages, each under the    *)
(* deadline NspawnCommand gives it, run by utility.RunCommandWithOutput    *)
(***************************************************************************)
\* configure/part_007:822-878  the commands Packages runs in the guest, in
\* order, each with the timeout passed to NspawnCommand and the statement
\* that follows it: after the base packages the docker key is fetched and
\* the docker sources are written (part_007:837-862)
GuestCommands ==
    << [argv |-> <<"apt-get", "update">>,
        minutes |-> 5,  then |-> "NspawnCommand"],
       [argv |-> <<"apt-get", "purge", "-y", "snapd">>,
        minutes |-> 20, then |-> "NspawnCommand"],
       [argv |-> <<"apt-get", "install", "--no-install-recommends", "-y">>,
        minutes |-> 20, then |-> "docker sources"],
       [argv |-> <<"apt-get", "update">>,
        minutes |-> 5,  then |-> "NspawnCommand"],
       [argv |-> <<"apt-get", "upgrade", "-y">>,
        minutes |-> 20, then |-> "NspawnCommand"],
       [argv |-> <<"apt-get", "install", "-y", "containerd.io">>,
        minutes |-> 20, then |-> "returned"] >>

\* one tick of nsClock: the shortest of the timeouts, which divides the others
TickMinutes == GuestCommands[1].minutes

\* part_007:755  the directory the image is mounted at
mount == "./mnt"

\* part_007:791  the argument vector of the systemd-nspawn process
NspawnArgs(dir, args) ==
    <<"systemd-nspawn", "--setenv=DEBIAN_FRONTEND=noninteractive", "-D", dir>> \o args

\* part_007:790  context.WithTimeout(ctx, timeout): the deadline is the time of
\* the call plus the timeout
WithTimeout(now, minutes) == now + minutes \div TickMinutes

\* exec.Cmd.CombinedOutput on a process in state proc: the error it returns
CombinedOutputErr(proc) ==
    CASE proc = "exit 0"       -> NoErr
      [] proc = "exit 1"       -> "exit status 1"
      [] proc = "killed"       -> "signal: killed"
      [] proc = "start failed" -> "exec: \"systemd-nspawn\": executable file not found in $PATH"

\* utility/part_000:249-251  the error RunCommandWithOutput returns
RunError(proc) ==
    IF CombinedOutputErr(proc) # NoErr
    THEN "non zero exit code exit code: " \o CombinedOutputErr(proc)
    ELSE NoErr

\* a runner that calls cancel only after the command has succeeded
RunCommandWithOutput_CancelOnSuccess(live, k, err) ==
    IF err = NoErr THEN live \ {k} ELSE live

\* utility/part_000:243-245  the deferred cancel() runs however the function
\* returns: the contexts that hold a timer afterwards
RunCommandWithOutput(live, k, err) == live \ {k}

NspawnInit ==
    /\ nsPc = "NspawnCommand"
    /\ nsCmd = 1
    /\ nsClock = 0
    /\ nsDeadline = 0
    /\ nsProc = "none"
    /\ nsLive = {}
    /\ nsLog = <<>>
    /\ nsResult = <<>>
    /\ SizesIdle
    /\ PartitionIdle
    /\ ChecksumIdle
    /\ DownloadIdle
    /\ WriteIdle
    /\ BuildIdle
    /\ ExpandIdle
    /\ CommandIdle
    /\ FlashIdle
    /\ ParseIdle

\* part_007:789-794 and part_000:247  NspawnCommand makes the context of the
\* next command and CombinedOutput starts the process
CallNspawnCommand ==
    /\ nsPc = "NspawnCommand"
    /\ nsDeadline' = WithTimeout(nsClock, GuestCommands[nsCmd].minutes)
    /\ nsLive' = nsLive \cup {nsCmd}
    /\ nsProc' \in {"running", "start failed"}
    /\ nsPc' = "CombinedOutput"
    /\ UNCHANGED <<nsCmd, nsClock, nsLog, nsResult>>
    /\ UNCHANGED notNspawn

\* time passes while the process runs; the timer of the context fires at the
\* deadline, so a running process never sees a later time
Tick ==
    /\ nsPc = "CombinedOutput"
    /\ nsProc = "running"
    /\ nsClock < nsDeadline
    /\ nsClock' = nsClock + 1
    /\ UNCHANGED <<nsPc, nsCmd, nsDeadline, nsProc, nsLive, nsLog, nsResult>>
    /\ UNCHANGED notNspawn

\* the process ends by itself, with status 0 or not
ProcessExits ==
    /\ nsPc = "CombinedOutput"
    /\ nsProc = "running"
    /\ nsProc' \in {"exit 0", "exit 1"}
    /\ UNCHANGED <<nsPc, nsCmd, nsClock, nsDeadline, nsLive, nsLog, nsResult>>
    /\ UNCHANGED notNspawn

\* exec.CommandContext: the context is done at its deadline and the process
\* is killed
DeadlineExceeded ==
    /\ nsPc = "CombinedOutput"
    /\ nsProc = "running"
    /\ nsClock = nsDeadline
    /\ nsProc' = "killed"
    /\ UNCHANGED <<nsPc, nsCmd, nsClock, nsDeadline, nsLive, nsLog, nsResult>>
    /\ UNCHANGED notNspawn

\* part_000:239-252 and the caller's "if err != nil { return err }":
\* RunCommandWithOutput returns and Packages returns the error or goes on
RunCommandWithOutputReturns ==
    /\ nsPc = "CombinedOutput"
    /\ nsProc # "running"
    /\ LET err == RunError(nsProc)
       IN  /\ nsLive' = RunCommandWithOutput(nsLive, nsCmd, err)
           /\ nsLog' = Append(nsLog, [cmd      |-> nsCmd,
                                      argv     |-> NspawnArgs(mount, GuestCommands[nsCmd].argv),
                                      deadline |-> nsDeadline,
                                      ended    |-> nsClock,
                                      proc     |-> nsProc,
                                      err      |-> err])
           /\ IF err # NoErr
              THEN /\ nsResult' = <<err>>
                   /\ nsPc' = "returned"
                   /\ nsCmd' = nsCmd
              ELSE IF nsCmd = Len(GuestCommands)
              THEN /\ nsResult' = <<NoErr>>
                   /\ nsPc' = "returned"
                   /\ nsCmd' = nsCmd
              ELSE /\ nsResult' = nsResult
                   /\ nsPc' = GuestCommands[nsCmd].then
                   /\ nsCmd' = nsCmd + 1
    /\ nsProc' = "none"
    /\ UNCHANGED <<nsClock, nsDeadline>>
    /\ UNCHANGED notNspawn

\* part_007:837-862  the docker key is fetched and the docker sources are
\* written; any error there is returned
WriteDockerSources ==
    /\ nsPc = "docker sources"
    /\ \E err \in {NoErr, "Get \"https://download.docker.com/linux/ubuntu/gpg\": EOF"} :
         IF err = NoErr
         THEN /\ nsPc' = "NspawnCommand"
              /\ nsResult' = nsResult
         ELSE /\ nsPc' = "returned"
              /\ nsResult' = <<err>>
    /\ UNCHANGED <<nsCmd, nsClock, nsDeadline, nsProc, nsLive, nsLog>>
    /\ UNCHANGED notNspawn

NspawnNext ==
    \/ CallNspawnCommand
    \/ Tick
    \/ ProcessExits
    \/ DeadlineExceeded
    \/ RunCommandWithOutputReturns
    \/ WriteDockerSources

NspawnSpec == NspawnInit /\ [][NspawnNext]_vars

(***************************************************************************)
(* ParseSpec: media.parsePartedOutput applied to partition listings        *)
(***************************************************************************)
MaxListing == 3

\* a partition line whose name field carries the text name
NamedLine(p, name) ==
    DecimalText(Bytes(p.Number)) \o Colon
      \o DecimalText(p.Start) \o <<"B">> \o Colon
      \o DecimalText(p.End) \o <<"B">> \o Colon
      \o DecimalText(p.Size) \o <<"B">> \o Colon
      \o p.FileSystem \o Colon \o name \o Colon \o <<";">>

\* a partition line that lacks the name field: six fields
ShortLine(p) ==
    DecimalText(Bytes(p.Number)) \o Colon
      \o DecimalText(p.Start) \o <<"B">> \o Colon
      \o DecimalText(p.End) \o <<"B">> \o Colon
      \o DecimalText(p.Size) \o <<"B">> \o Colon
      \o p.FileSystem \o Colon \o <<";">>

\* a seven-field ext4 line whose number is not a decimal number
BadNumberLine(p) == <<"x">> \o Colon \o Tail(PartitionLine(p))

\* the lines listings are made of: the unit line, a FAT partition, two
\* different ext4 partitions, a FAT partition named ext4, an ext4 line of six
\* fields, an ext4 line with a malformed number, and the empty line
ListingLines ==
    { <<"B", "Y", "T", ";">>,
      PartitionLine(PartitionRecord(1, Mi(1), BSub(Mi(257), Bytes(1)), Mi(256), Fat32)),
      PartitionLine(PartitionRecord(2, Mi(257), BSub(Mi(3072), Bytes(1)), Mi(2815), Ext4)),
      PartitionLine(PartitionRecord(3, Mi(3072), BSub(Mi(4096), Bytes(1)), Mi(1024), Ext4)),
      NamedLine(PartitionRecord(4, Mi(1), BSub(Mi(257), Bytes(1)), Mi(256), Fat32), Ext4),
      ShortLine(PartitionRecord(5, Mi(1), BSub(Mi(257), Bytes(1)), Mi(256), Ext4)),
      BadNumberLine(PartitionRecord(6, Mi(1), BSub(Mi(257), Bytes(1)), Mi(256), Ext4)),
      <<>> }

RECURSIVE ListingText(_)
\* the listing as one text, each line ended by a newline
ListingText(lines) ==
    IF lines = <<>> THEN <<>>
    ELSE Head(lines) \o Newline \o ListingText(Tail(lines))

ParseInit ==
    /\ partedLines \in SeqsUpTo(ListingLines, MaxListing)
    /\ parsedEntry = <<>>
    /\ SizesIdle
    /\ PartitionIdle
    /\ ChecksumIdle
    /\ DownloadIdle
    /\ WriteIdle
    /\ BuildIdle
    /\ ExpandIdle
    /\ CommandIdle
    /\ FlashIdle
    /\ NspawnIdle

\* one call of parsePartedOutput (file.go:232)
CallParsePartedOutput ==
    /\ parsedEntry = <<>>
    /\ parsedEntry' = <<parsePartedOutput(ListingText(partedLines))>>
    /\ UNCHANGED partedLines
    /\ UNCHANGED notParse

ParseNext == CallParsePartedOutput

ParseSpec == ParseInit /\ [][ParseNext]_vars

(***************************************************************************)
(* Claims about GetLogicalVolumeSizes (SizesSpec)                          *)
(***************************************************************************)

\* the sizes the claims name, written out in MiB so that they do not depend
\* on the constants of the code
TenGiB == Norm(10 * 1024, 0)

ThirtyGiB == Norm(30 * 1024, 0)

FiveGiB == Norm(5 * 1024, 0)

Headroom == Norm(2 * 256, 0)

\* the free capacity an entry states, read independently of the code's result
FreeOf(e) == DecimalValue(SelectSeq(e.VGFree, IsDigit), Bytes(0))

\* C1: for the entry of the unit test, VGFree = 31394365440 bytes,
\* GetLogicalVolumeSizes returns no error, root = 10737418240 bytes and
\* CSI storage = 20120076288 bytes.
C1_TestVectorSizes ==
    (sized # <<>> /\ entry.VGFree = TestVGFree) =>
        /\ sized[1].err = NoErr
        /\ sized[1].rootSize =
             DecimalValue(<<"1", "0", "7", "3", "7", "4", "1", "8", "2", "4", "0">>, Bytes(0))
        /\ sized[1].CSISize =
             DecimalValue(<<"2", "0", "1", "2", "0", "0", "7", "6", "2", "8", "8">>, Bytes(0))

Issued(tool) == \E i \in DOMAIN cmds : cmds[i].tool = tool

\* C3: when the computed CSI-storage size is below the 5 GiB floor,
\* CreateLogicalVolumes returns an error and no lvcreate command is issued
\* in that run.
C3_NoVolumeBelowFloor ==
    (plan # <<>> /\ BLess(plan[1].CSISize, FiveGiB)) =>
        /\ ~Issued("lvcreate")
        /\ lvm.lvs = <<>>
        /\ flashPc = "failed"
        /\ flashErr # NoErr

\* the volume group of the unit test (29940 MiB free) is too small: the run
\* has failed after sizing, with the volume group created and no volume
C3_Witness ==
    /\ plan # <<>>
    /\ report[1][1].VGFree = TestVGFree
    /\ BLess(plan[1].CSISize, FiveGiB)
    /\ flashPc = "failed"
    /\ lvm.vg

\* C4: the empty-table guard succeeds when the parsed partition list is
\* empty (absent, or a zero-length list) and fails for every non-empty list,
\* whatever the number of partitions.
C4_EmptyTableGuard ==
    (guard # "pending" /\ table[1].err = NoErr) =>
        /\ guard \in {"passed", "rejected"}
        /\ guard = "passed" <=> table[1].Partitions.items = <<>>
        /\ guard = "passed" <=> device0.parts = <<>>

\* the guard has passed on a zero-length (not absent) partition list
C4_Witness ==
    /\ guard = "passed"
    /\ table[1].err = NoErr
    /\ ~table[1].Partitions.isNil
    /\ table[1].Partitions.items = <<>>

\* C5: CreateTable issues no table-mutating command (mktable, mkpart, set)
\* unless the partition-table query succeeded and reported zero partitions;
\* when the query fails or reports a partition the device is left untouched
\* and an error is returned.
C5_TableOnlyAfterGuard ==
    /\ Issued("parted") =>
          /\ table # <<>>
          /\ table[1].err = NoErr
          /\ LenSlice(table[1].Partitions) = 0
          /\ device0.parts = <<>>
          /\ \A i \in DOMAIN cmds :
                cmds[i].tool = "parted" => cmds[i].argv[3] = OutputDevice
    /\ (table # <<>> /\ (table[1].err # NoErr \/ LenSlice(table[1].Partitions) # 0)) =>
          /\ device = device0
          /\ cmds = <<>>
          /\ flashPc \in {"guard", "failed"}
          /\ flashPc = "failed" => flashErr # NoErr

\* the query failed and CreateTable has returned its error
C5_Witness ==
    /\ table # <<>>
    /\ table[1].err # NoErr
    /\ flashPc = "failed"
    /\ flashErr = table[1].err
    /\ device = device0


(***************************************************************************)
(* Claims about extractChecksum and ValidateHashes (ChecksumSpec)          *)
(***************************************************************************)

Malformed == "length mismatch check file format"

Mismatch == "checksums do not match"

\* a line that does not split into exactly two fields (hash, filename)
NotTwoFields(l) == l.kind \in {"two", "bare", "triple"}

\* the index of the first empty line of the file, past the end when none
FirstEmpty ==
    LET empties == {i \in DOMAIN sumLines : sumLines[i].kind = "empty"}
    IN  IF empties = {} THEN Len(sumLines) + 1
        ELSE CHOOSE i \in empties : \A j \in empties : i <= j

\* the lines up to the first empty line
Leading == 1..(FirstEmpty - 1)

\* N well-formed lines followed by a trailing blank line
WellFormedFile ==
    /\ finalNewline
    /\ \A i \in DOMAIN sumLines : sumLines[i].kind = "star"

\* the digest of the last of the leading lines that name n
LastDigest(n) ==
    LET at == {i \in Leading : sumLines[i].name = n}
    IN  sumLines[CHOOSE i \in at : \A j \in at : j <= i].digest

\* the digests the leading well-formed lines record for the media's filename
Recorded ==
    {sumLines[i].digest :
        i \in {j \in Leading : sumLines[j].kind = "star" /\ sumLines[j].name = ImageName}}

\* C6: ValidateHashes succeeds whenever the digest of the media equals the
\* value the (parsable) checksum file records for the media's filename,
\* fails with the mismatch error whenever the digest differs from the
\* recorded value, and never reports success without a matching record.
C6_ValidateHashes ==
    verdict # <<>> =>
        /\ ((\A i \in Leading : sumLines[i].kind = "star")
              /\ Recorded = {Sha256Hex(mediaBytes)}) => verdict[1] = NoErr
        /\ ((\A i \in Leading : sumLines[i].kind = "star")
              /\ Recorded # {} /\ Sha256Hex(mediaBytes) \notin Recorded) =>
                 verdict[1] = Mismatch
        /\ verdict[1] = NoErr => Sha256Hex(mediaBytes) \in Recorded

\* a file listing the image with another media's digest was refused
C6_Witness ==
    /\ verdict = <<Mismatch>>
    /\ WellFormedFile
    /\ Recorded # {}
    /\ Sha256Hex(mediaBytes) \notin Recorded

\* C7, as stated: N well-formed lines and a trailing blank line give exactly
\* N entries, and every input containing a line that does not split into
\* exactly two fields gives the malformed-file error.
C7_EveryMalformedLineRejected ==
    sums # <<>> =>
        /\ WellFormedFile =>
              /\ sums[1].err = NoErr
              /\ Cardinality(DOMAIN sums[1].sums) = Len(sumLines)
        /\ (\E i \in DOMAIN sumLines : NotTwoFields(sumLines[i])) =>
              sums[1].err = Malformed

\* C7, amended: N well-formed lines and a trailing blank line give one entry
\* per distinct filename (N entries when the filenames differ), each with the
\* digest of the last line naming it; a non-empty line before the first
\* empty line that does not split into exactly two fields gives the
\* malformed-file error.
C7_LeadingLinesParsed ==
    sums # <<>> =>
        /\ WellFormedFile =>
              /\ sums[1].err = NoErr
              /\ DOMAIN sums[1].sums = {sumLines[i].name : i \in DOMAIN sumLines}
              /\ \A i \in DOMAIN sumLines :
                    sums[1].sums[sumLines[i].name] = LastDigest(sumLines[i].name)
              /\ (\A i, j \in DOMAIN sumLines :
                     sumLines[i].name = sumLines[j].name => i = j) =>
                        Cardinality(DOMAIN sums[1].sums) = Len(sumLines)
        /\ (\E i \in Leading : NotTwoFields(sumLines[i])) => sums[1].err = Malformed

\* two well-formed lines naming two files were parsed into two entries
C7_Witness ==
    /\ sums # <<>>
    /\ WellFormedFile
    /\ Len(sumLines) = 2
    /\ sumLines[1].name # sumLines[2].name
    /\ Cardinality(DOMAIN sums[1].sums) = 2

\* C8, as stated: a line "<digest> *<name>" and a line "<digest>  <name>"
\* each yield the entry name -> digest.
C8_BothFormatsAccepted ==
    (sums # <<>> /\ \A i \in Leading : sumLines[i].kind \in {"star", "two"}) =>
        /\ sums[1].err = NoErr
        /\ \A i \in Leading :
              Get(sums[1].sums, sumLines[i].name) = LastDigest(sumLines[i].name)

\* C8, amended: only the format "<digest> *<name>" is accepted and yields the
\* entry name -> digest; a line "<digest>  <name>" (two spaces) before the
\* first empty line gives the malformed-file error.
C8_StarFormatOnly ==
    sums # <<>> =>
        /\ (\A i \in Leading : sumLines[i].kind = "star") =>
              /\ sums[1].err = NoErr
              /\ \A i \in Leading :
                    Get(sums[1].sums, sumLines[i].name) = LastDigest(sumLines[i].name)
        /\ (\E i \in Leading : sumLines[i].kind = "two") => sums[1].err = Malformed

\* a file of one two-space line was refused
C8_Witness ==
    /\ sums # <<>>
    /\ Len(sumLines) = 1
    /\ sumLines[1].kind = "two"
    /\ finalNewline
    /\ sums[1] = [sums |-> EmptyMap, err |-> Malformed]


(***************************************************************************)
(* Claims about DownloadAndVerifyMedia (DownloadSpec)                      *)
(***************************************************************************)

\* C9: when the media file and the checksum file both exist when the call
\* starts and forceOverwrite is false, the call downloads nothing: no file
\* is opened for writing, no HTTP request is made, the files stay as they were.
C9_NoDownloadWhenPresent ==
    (dlPc \notin {"idle", "stat"} /\ ~forceOverwrite
        /\ \A f \in FileNames : atCall[f].exists) =>
            /\ opens = {}
            /\ requests = {}
            /\ files = atCall
            /\ \A f \in FileNames : gpc[f] \in {"start", "done"}

\* a call with both files present and force off has returned after verifying
C9_Witness ==
    /\ dlPc = "returned"
    /\ ~forceOverwrite
    /\ \A f \in FileNames : atCall[f].exists
    /\ validated
    /\ opens = {}
    /\ requests = {}

\* C10: DownloadAndVerifyMedia goes past group.Wait only when both
\* goroutines have returned; when a download failed it returns the error of
\* the goroutine that failed first, ValidateHashes has not run, and every
\* file that existed or was created is still there.
C10_WaitsForBothFirstError ==
    /\ dlPc \in {"verify", "returned"} => \A f \in FileNames : gpc[f] = "done"
    /\ (dlPc = "returned" /\ failOrder # <<>>) =>
          /\ dlResult = gerr[failOrder[1]]
          /\ dlResult # NoErr
          /\ ~validated
    /\ \A f \in FileNames : (atCall[f].exists \/ f \in opens) => files[f].exists

\* both downloads ran at once and both failed, the checksum goroutine
\* (started second) first: its error is the one returned, and the partly
\* written media file is still there
C10_Witness ==
    /\ dlPc = "returned"
    /\ failOrder = <<"checksum", "media">>
    /\ opens = FileNames
    /\ requests = FileNames
    /\ dlResult = gerr["checksum"]
    /\ gerr["media"] = CopyErr["media"]
    /\ files["media"].exists
    /\ ~validated

(***************************************************************************)
(* Claims about IdempotentWrite (WriteSpec)                                *)
(***************************************************************************)
Succeeded(c) == c.err = NoErr

\* C11: IdempotentWrite is write-if-different: a successful call that finds
\* the file holding exactly the incoming bytes writes nothing and leaves the
\* content as it was, and of two successful calls in a row with the same
\* bytes the second writes nothing.
C11_WriteIfDifferent ==
    \A i \in 1..Len(writeCalls) :
        LET c == writeCalls[i]
        IN  /\ (Succeeded(c) /\ c.before = <<c.incoming>>)
                  => (c.writes = 0 /\ c.after = c.before)
            /\ (i > 1 /\ Succeeded(c) /\ Succeeded(writeCalls[i - 1])
                  /\ writeCalls[i - 1].incoming = c.incoming)
                  => c.writes = 0

\* C12: a successful call that finds the file holding bytes different from
\* the incoming ones leaves the file holding exactly the incoming bytes.
C12_DifferentBytesOverwrite ==
    \A i \in 1..Len(writeCalls) :
        LET c == writeCalls[i]
        IN  (Succeeded(c) /\ c.before # <<>> /\ c.before # <<c.incoming>>)
                => c.after = <<c.incoming>>

(***************************************************************************)
(* Claims about the mount session and the image build (BuildSpec)          *)
(***************************************************************************)
Tried(op) == \E i \in 1..Len(ops) : ops[i].op = op

Worked(op) == \E i \in 1..Len(ops) : ops[i].op = op /\ ops[i].ok

Pos(op) == CHOOSE i \in 1..Len(ops) : ops[i].op = op

\* the guest's resolver file when AttachToMountPoint was entered
ResolvBeforeAttach == ops[Pos("MkdirAll")].resolv

AttachSucceeded == Worked("WriteFile mountedResolv")

TeardownSucceeded == Worked("cleanup: losetup --detach")

SessionMounts == {i \in 1..Len(mountTable) : mountTable[i].dev[1] = Device.Name}

CleanUpOps ==
    <<"cleanup: Remove mountedResolv", "cleanup: Symlink mountedResolv",
      "cleanup: Remove backup", "cleanup: umount boot", "cleanup: umount root",
      "cleanup: losetup --detach">>

\* every operation of the list before the k-th has worked, and ran earlier
EarlierAllWorked(list, k) ==
    \A j \in 1..(k - 1) : Worked(list[j]) /\ Pos(list[j]) < Pos(list[k])

\* C14: the teardown restores the resolver file, then unmounts boot, then
\* unmounts root, then detaches the loop device: an operation of it is only
\* run after all the earlier ones have worked, so root is never unmounted
\* before boot, and no mount of the session is active once the detach is run.
C14_TeardownOrder ==
    /\ \A k \in 1..Len(CleanUpOps) :
          Tried(CleanUpOps[k]) => EarlierAllWorked(CleanUpOps, k)
    /\ Tried("cleanup: losetup --detach") => SessionMounts = {}

C14_Witness ==
    /\ Worked("mount root")
    /\ Worked("mount boot")
    /\ TeardownSucceeded

\* the environment failed an operation of the teardown itself
CleanUpFault ==
    \E i \in 1..Len(ops) :
        ops[i].fault /\ \E k \in 1..Len(CleanUpOps) : ops[i].op = CleanUpOps[k]

\* C15: when a step fails after the loop device was attached, its entry was
\* returned to main and main has deferred the cleanup, the process does not
\* end before every mount is unmounted and the loop device is detached, also
\* when the failure came before the mounts or the resolver substitution
\* existed (no operation of the teardown itself being failed by the
\* environment).
C15_FailureReleasesResources ==
    (buildPc = "exited" /\ loopEntry # <<>> /\ Device.Name # "" /\ panicked # NoErr
       /\ ~CleanUpFault)
        => /\ mountTable = <<>>
           /\ \A i \in 1..Len(loops) : loops[i] = ""

\* the run wrote the host's resolver content into the image: the write of
\* AttachToMountPoint ran and left that content behind
Substituted ==
    /\ Tried("WriteFile mountedResolv")
    /\ \E i \in (Pos("WriteFile mountedResolv") + 1)..Len(ops) : ops[i].resolv = "host copy"

ConfigureOps ==
    {"KernelSettings", "KernelModules", "Packages", "InstallKubernetes", "CloudInit", "Fstab"}

ConfigureFailed == \E i \in 1..Len(ops) : ops[i].op \in ConfigureOps /\ ~ops[i].ok

NoExt4InListing ==
    \A i \in 1..Len(Extracted(image.rootFs).parts) :
        Extracted(image.rootFs).parts[i].FileSystem # Ext4

\* C17: when the listing has no ext4 partition, parsePartedOutput returns the
\* zero record without error and FileSystemExpansion then runs no partition
\* resize, no filesystem check and no filesystem resize.
C17_NoExt4NothingResized ==
    (partition # <<>> /\ NoExt4InListing)
        => /\ Partition = ZeroPartition
           /\ ~Tried("resizepart")
           /\ ~Tried("e2fsck")
           /\ ~Tried("resize2fs")

ExpansionOps == <<"resizepart", "e2fsck", "resize2fs">>

\* C18: FileSystemExpansion runs the partition resize, the filesystem check
\* and the filesystem resize in that order, the check only after the
\* partition resize has worked and the filesystem resize only after the check
\* has worked.
C18_ExpansionOrder ==
    \A k \in 1..Len(ExpansionOps) :
        Tried(ExpansionOps[k]) => EarlierAllWorked(ExpansionOps, k)

C18_Witness == Worked("resizepart") /\ Worked("e2fsck") /\ Worked("resize2fs")

\* C19: whenever MountImageToDevice returns without error, the entry it
\* returns has the image path as its backing file and a device name.
C19_ReturnedEntryBacksImage ==
    loopEntry # <<>> => Device.BackFile = ImagePath /\ Device.Name # ""

\* C20: at most one loop device references a given backing file, in every
\* state of every sequence of build runs, failed ones included.
C20_OneLoopDevicePerFile ==
    \A i, j \in 1..Len(loops) : (loops[i] # "" /\ loops[i] = loops[j]) => i = j

(***************************************************************************)
(* Claims about ExpandSize (ExpandSpec)                                    *)
(***************************************************************************)

\* C21: after ExpandSize returns successfully the backing file's size is at
\* least the minimum expected size (4 GB), for every initial size; and a file
\* that already exceeds that threshold keeps its size.
C21_AtLeastExpectedSize ==
    \A i \in 1..Len(expandCalls) :
        expandCalls[i].err = NoErr
            => /\ BLeq(expectedSize, expandCalls[i].after[1])
               /\ BLess(expectedSize, expandCalls[i].before[1])
                    => expandCalls[i].after = expandCalls[i].before

(***************************************************************************)
(* Claims about the order and the outcome of the build (BuildSpec)         *)
(***************************************************************************)

\* the forward operations of a build in the order main reaches them
ForwardOps ==
    <<"DownloadAndVerifyMedia", "xz -d -k", "ExpandSize", "losetup -Pf", "losetup -lJ",
      "parted print", "resizepart", "e2fsck", "resize2fs",
      "MkdirAll", "mount root", "mount boot", "Symlink backup", "Stat resolvConf",
      "Remove mountedResolv", "ReadFile resolvConf", "WriteFile mountedResolv",
      "KernelSettings", "KernelModules", "Packages", "InstallKubernetes", "CloudInit",
      "Fstab", "CompressImage", "UploadImage">>

IsForward(op) == \E k \in 1..Len(ForwardOps) : ForwardOps[k] = op

Rank(op) == CHOOSE k \in 1..Len(ForwardOps) : ForwardOps[k] = op

MountOps ==
    {"MkdirAll", "mount root", "mount boot", "Symlink backup", "Stat resolvConf",
     "Remove mountedResolv", "ReadFile resolvConf", "WriteFile mountedResolv"}

SomeOpFailed == \E i \in 1..Len(ops) : ~ops[i].ok

\* C24: the build is strictly linear: the forward operations happen in the
\* order acquisition, extraction, size expansion, loop attach, filesystem
\* expansion, mount, configuration, (teardown,) compress/upload; none is
\* repeated; and a forward operation runs only when every operation before it,
\* the teardown included, has succeeded.
C24_StrictlyLinear ==
    \A j \in 1..Len(ops) :
        IsForward(ops[j].op)
            => \A i \in 1..(j - 1) :
                  /\ ops[i].ok
                  /\ IsForward(ops[i].op) => Rank(ops[i].op) < Rank(ops[j].op)

\* C25: no error is swallowed: once an external tool of a step has failed,
\* the partition listing of FileSystemExpansion included, the build does not
\* go on to mounting or configuration.
C25_NoErrorSwallowed ==
    \A i \in 1..Len(ops) :
        ~ops[i].ok
            => \A j \in (i + 1)..Len(ops) : ops[j].op \notin MountOps \cup ConfigureOps

\* C26: after the partition resize of FileSystemExpansion has succeeded the
\* ext4 partition ends at the last byte of the (enlarged) device.
C26_ResizeToDiskEnd ==
    (Worked("resizepart") /\ image.extracted)
        => \A k \in 1..Len(image.parts) :
              image.parts[k].FileSystem = Ext4
                  => image.parts[k].End = BSub(image.size, Bytes(1))

\* C27: the image is compressed or uploaded only when every operation of
\* filesystem expansion, mount and configuration succeeded, the configuration
\* ran to its end and the teardown succeeded.
C27_CompressOnlyAfterCleanBuild ==
    (Tried("CompressImage") \/ Tried("UploadImage"))
        => /\ \A i \in 1..Len(ops) :
                 (ops[i].op \in {"parted print", "resizepart", "e2fsck", "resize2fs"}
                                  \cup MountOps \cup ConfigureOps
                   \/ \E k \in 1..Len(CleanUpOps) : CleanUpOps[k] = ops[i].op)
                     => ops[i].ok
           /\ Worked("Fstab")
           /\ TeardownSucceeded

\* C28: a build process in which a step failed never ends with the outcome
\* of a completed build.
C28_FailedBuildFails ==
    (buildPc = "exited" /\ (SomeOpFailed \/ panicked # NoErr)) => outcome # "exit 0"

(***************************************************************************)
(* Claims about partedCommand (CommandSpec)                                *)
(***************************************************************************)

\* C23: for every device and option list the argument vector is "parted",
\* "-s", the device, then the options in the given order, and nothing else.
C23_PartedArgumentVector ==
    cmdBuilt # <<>>
        => LET argv == cmdBuilt[1]
               options == cmdInput[1].options
           IN  /\ Len(argv) = 3 + Len(options)
               /\ argv[1] = "parted"
               /\ argv[2] = "-s"
               /\ argv[3] = cmdInput[1].device
               /\ \A k \in 1..Len(options) : argv[3 + k] = options[k]

C23_Witness ==
    /\ cmdBuilt # <<>>
    /\ cmdInput[1].device = "/dev/loop8"
    /\ cmdInput[1].options = <<"mktable", "msdos">>

(***************************************************************************)
(* Claims about the flash flow (FlashSpec)                                 *)
(***************************************************************************)

\* table creation, volume-group and logical-volume creation, filesystem
\* creation and rsync onto the target
DestructiveOps ==
    {"mktable", "mkpart boot", "mkpart root", "set lvm",
     "pvcreate", "vgcreate", "lvcreate root", "lvcreate csi", "lvcreate containerd",
     "mkfs.vfat", "mkfs.ext4 root", "mkfs.ext4 csi", "mkfs.ext4 containerd",
     "rsync boot", "rsync root"}

FlowTried(op) == \E i \in 1..Len(flowOps) : flowOps[i].op = op

FlowWorked(op) == \E i \in 1..Len(flowOps) : flowOps[i].op = op /\ flowOps[i].ok

TargetTouched == \E i \in 1..Len(flowOps) : flowOps[i].op \in DestructiveOps

\* the path starts with the device prefix
BlockDeviceStyle(d) == d # <<>> /\ HasPrefix(d, DevPrefix)

AnsweredYes(r) == r.err = NoErr /\ EqualFold(r.text, <<"y">>)

\* C22: nothing destructive is done to the target unless the device path is
\* a block-device-style path and the user answered yes; with an empty path, a
\* path without the device prefix, a read error or any other answer the run
\* ends at that test with the target untouched.
C22_NoFlashWithoutConsent ==
    /\ TargetTouched => BlockDeviceStyle(deviceArg) /\ AnsweredYes(reply)
    /\ (~BlockDeviceStyle(deviceArg) \/ ~AnsweredYes(reply))
         => flowPc \in {"imageName", "outputDevice", "ConfirmDialog", "exited"}

\* C29: every flash process that attached the image to a loop device or
\* mounted image or media mount points has detached and unmounted them when it
\* ends, after a successful flash and after a failed step alike.
C29_FlashTearsDown ==
    flowPc = "exited"
        => /\ flowMounts = <<>>
           /\ \A i \in 1..Len(flowLoops) : flowLoops[i] = ""

\* C30: MountMedia mounts the device-mapper node of the root logical volume
\* that CreateLogicalVolumes created at the media root, and mounts the boot
\* partition of the target only after that mount has succeeded.
C30_MountMediaRootThenBoot ==
    \A i \in 1..Len(flowOps) :
        /\ flowOps[i].op = "mount mediaRoot"
             => /\ flowOps[i].arg = MapperName(RootLogicalVolume)
                /\ \E j \in 1..(i - 1) :
                      /\ flowOps[j].op = "lvcreate root"
                      /\ flowOps[j].ok
                      /\ flowOps[j].arg = flowOps[i].arg
        /\ flowOps[i].op = "mount mediaBoot"
             => /\ flowOps[i].arg = PartNode(deviceArg, "1")
                /\ \E j \in 1..(i - 1) : flowOps[j].op = "mount mediaRoot" /\ flowOps[j].ok

(***************************************************************************)
(* Claims about the order of volume creation (PartitionSpec)               *)
(***************************************************************************)

IsLvCreate(c) == c.tool = "lvcreate"

\* the lvcreate commands run so far, in order
LvCommands == SelectSeq(cmds, IsLvCreate)

\* the volumes in the order claimed, with the sizes of the plan
PlannedVolumes ==
    <<[name |-> RootLogicalVolume, size |-> plan[1].rootSize],
      [name |-> CSILogicalVolume, size |-> plan[1].CSISize],
      [name |-> ContainerdVolume, size |-> plan[1].containerdSize]>>

\* the position of the first command of the tool
FirstIssue(tool) ==
    CHOOSE i \in DOMAIN cmds : cmds[i].tool = tool /\ \A j \in 1..(i - 1) : cmds[j].tool # tool

\* C31: the volumes are created in the order root, CSI-storage,
\* container-runtime, each with signature wiping and with the size that
\* GetLogicalVolumeSizes planned; a volume is created only when every earlier
\* creation succeeded, and only after the volume group was created and its
\* free capacity queried and sized without error.
C31_VolumeCreationOrder ==
    LvCommands # <<>>
        => /\ lvm.vg
           /\ Issued("vgcreate") /\ Issued("vgs")
           /\ FirstIssue("vgcreate") < FirstIssue("vgs")
           /\ FirstIssue("vgs") < FirstIssue("lvcreate")
           /\ report # <<>> /\ plan # <<>> /\ plan[1].err = NoErr
           /\ Len(LvCommands) <= 3
           /\ \A k \in 1..Len(LvCommands) :
                 /\ LvCommands[k].argv[2] = "--size"
                 /\ LvCommands[k].size = DecimalText(PlannedVolumes[k].size) \o <<"B">>
                 /\ LvCommands[k].argv[4] = VolumeGroupName
                 /\ LvCommands[k].argv[6] = PlannedVolumes[k].name
                 /\ Len(LvCommands[k].argv) = 8
                 /\ LvCommands[k].argv[7] = "--wipesignatures"
                 /\ LvCommands[k].argv[8] = "y"
           /\ Len(LvCommands) - 1 <= Len(lvm.lvs)
           /\ Len(lvm.lvs) <= Len(LvCommands)
           /\ \A k \in 1..Len(lvm.lvs) : lvm.lvs[k] = PlannedVolumes[k]
           /\ Len(lvm.lvs) < Len(LvCommands) => flashPc = "failed"

\* the creation of the CSI volume failed after the root volume was created
C31_Witness ==
    /\ Len(LvCommands) = 2
    /\ Len(lvm.lvs) = 1
    /\ flashPc = "failed"

(***************************************************************************)
(* Claims about a failed detach (BuildSpec)                                *)
(***************************************************************************)

DetachFailedAt(i) == ops[i].op = "cleanup: losetup --detach" /\ ~ops[i].ok

\* C32: a failure to detach the loop device during teardown does not end the
\* session: the process goes on with what follows the teardown (compression
\* after a completed configuration, the return of main after a recovered
\* panic) instead of aborting with a failure.
C32_DetachFailureNotFatal ==
    \A i \in 1..Len(ops) :
        DetachFailedAt(i)
            => IF panicked = NoErr
               THEN buildPc = "CompressImage" \/ Tried("CompressImage")
               ELSE outcome = "exit 0"

(***************************************************************************)
(* Claims about the guest commands of Packages (NspawnSpec)                *)
(***************************************************************************)
\* the command with log entry e ran into its deadline
Aborted(e) == e.proc = "killed"

\* C33: every guest command runs under a deadline of its own, the time of its
\* NspawnCommand call plus its timeout; a command that reaches the deadline is
\* killed, RunCommandWithOutput returns an error for it and Packages returns
\* that error without running another command; and once RunCommandWithOutput
\* has returned, with an error or without, the cancel function of the command
\* has run, so no finished command still holds its timer.
C33_DeadlinePerCommand ==
    /\ nsProc = "running" => nsClock <= nsDeadline
    /\ nsPc = "CombinedOutput"
          => /\ nsLive = {nsCmd}
             /\ nsDeadline = WithTimeout(IF nsLog = <<>> THEN 0
                                         ELSE nsLog[Len(nsLog)].ended,
                                         GuestCommands[nsCmd].minutes)
    /\ nsPc # "CombinedOutput" => nsLive = {}
    /\ \A i \in 1..Len(nsLog) :
          /\ nsLog[i].cmd = i
          /\ nsLog[i].cmd \notin nsLive
          /\ nsLog[i].ended <= nsLog[i].deadline
          /\ Aborted(nsLog[i]) => nsLog[i].ended = nsLog[i].deadline
          /\ nsLog[i].proc # "exit 0"
                => /\ nsLog[i].err # NoErr
                   /\ i = Len(nsLog)
                   /\ nsPc = "returned"
                   /\ nsResult = <<nsLog[i].err>>

\* a command after the first was killed at its deadline although earlier
\* commands had used time, and its cancel function has run
C33_Witness ==
    /\ nsPc = "returned"
    /\ Len(nsLog) > 1
    /\ Aborted(nsLog[Len(nsLog)])
    /\ nsLog[Len(nsLog) - 1].ended > 0
    /\ nsResult = <<"non zero exit code exit code: signal: killed">>
    /\ nsLive = {}

(***************************************************************************)
(* Claims about parsePartedOutput (ParseSpec)                              *)
(***************************************************************************)
\* the line has seven fields and its fifth field is ext4
IsExt4Entry(line) ==
    LET split == Split(line, Colon)
    IN  Len(split) = 7 /\ split[5] = Ext4

\* the ext4 entries of the listing, in table order
Ext4Entries == SelectSeq(partedLines, IsExt4Entry)

\* C34: the result of parsePartedOutput is decided by the first ext4 entry in
\* table order alone, whatever ext4 entries follow it: it is the record of that
\* entry, or the error of reading its fields; without an ext4 entry it is the
\* zero entry.  Lines that are not ext4 or do not have seven fields have no
\* influence: the listing without them gives the same result.
C34_FirstExt4Wins ==
    parsedEntry # <<>>
        => /\ parsedEntry[1] = IF Ext4Entries = <<>>
                               THEN [entry |-> ZeroPartition, err |-> NoErr]
                               ELSE ParseExt4Line(Split(Ext4Entries[1], Colon))
           /\ parsedEntry[1] = parsePartedOutput(ListingText(Ext4Entries))

\* two different ext4 entries with other lines before and between them: the
\* first, partition 2, is returned
C34_Witness ==
    /\ parsedEntry # <<>>
    /\ Len(Ext4Entries) = 2
    /\ Ext4Entries[1] # Ext4Entries[2]
    /\ ~IsExt4Entry(partedLines[1])
    /\ parsedEntry[1].err = NoErr
    /\ parsedEntry[1].entry.Number = 2
    /\ parsedEntry[1].entry.FileSystem = Ext4

(***************************************************************************)
(* Further claims about DownloadAndVerifyMedia (DownloadSpec)              *)
(***************************************************************************)
\* C35: a call of DownloadAndVerifyMedia that returned nil has run
\* ValidateHashes on the two files as they are and ValidateHashes returned
\* nil; the comparison is made in every call that gets past group.Wait and reads
\* both files, a call whose two downloads were skipped included.
C35_VerifiedInEveryCall ==
    dlPc = "returned" =>
        /\ dlResult = NoErr =>
              /\ validated
              /\ ValidateHashes(ImageName, files.media.content,
                                files.checksum.content) = NoErr
        /\ (groupErr = NoErr /\ ~validated) =>
              dlResult \in {ReadErr[f] : f \in FileNames} \cup {ErrNotExist}
        /\ validated =>
              dlResult = ValidateHashes(ImageName, files.media.content,
                                        files.checksum.content)

\* both files existed, nothing was downloaded, and the call still compared
\* the digests and refused the media
C35_Witness ==
    /\ dlPc = "returned"
    /\ ~forceOverwrite
    /\ \A f \in FileNames : atCall[f].exists
    /\ opens = {}
    /\ validated
    /\ dlResult = Mismatch


\* file f is what a failed download of the earlier call left behind: it
\* exists and holds a proper prefix of what the server holds
PartialAt(f) ==
    /\ calls > 1
    /\ atCall[f].exists
    /\ atCall[f].content \in Prefixes(RemoteContent[f])

VerificationErrors == {Mismatch, Malformed}

\* the checksum file holds the complete line of the image with the digest
\* of the media file
MediaLineComplete ==
    /\ extractChecksum(files.checksum.content).err = NoErr
    /\ Get(extractChecksum(files.checksum.content).sums, ImageName)
          = Sha256Hex(files.media.content)

\* DownloadFile requests only after it has opened and truncated the file, so
\* a download that failed at the request or at the copy leaves the file
\* behind with part of the content
OpenBeforeRequest ==
    /\ requests \subseteq opens
    /\ \A f \in FileNames :
          (gpc[f] = "done" /\ gerr[f] \in {GetErr[f], CopyErr[f]})
              => /\ files[f].exists
                 /\ files[f].content \in Prefixes(RemoteContent[f])

C37_MissingEntryIsMismatch ==
    (/\ verdict # <<>>
     /\ extractChecksum(checksumBytes).err = NoErr
     /\ ImageName \notin DOMAIN extractChecksum(checksumBytes).sums)
        => verdict[1] = Mismatch

\* the file lists the digest of the media, but under another name: refused
C37_Witness ==
    /\ verdict = <<Mismatch>>
    /\ WellFormedFile
    /\ sumLines # <<>>
    /\ \A i \in DOMAIN sumLines :
          /\ sumLines[i].name = OtherName
          /\ sumLines[i].digest = Sha256Hex(mediaBytes)

\* C38: extractChecksum stops at the first empty line: its result is that of
\* the lines before it alone; when those lines are well-formed the result is
\* without error and holds exactly their entries, so a line after the first
\* empty line adds no entry and, malformed, gives no error.
C38_StopsAtFirstEmptyLine ==
    sums # <<>> =>
        /\ sums[1] = extractChecksum(JoinLines(SubSeq(sumLines, 1, FirstEmpty - 1)))
        /\ (\A i \in Leading : sumLines[i].kind = "star") =>
              /\ sums[1].err = NoErr
              /\ DOMAIN sums[1].sums = {sumLines[i].name : i \in Leading}
              /\ \A i \in Leading :
                    sums[1].sums[sumLines[i].name] = LastDigest(sumLines[i].name)

\* an entry, an empty line, then a malformed line: one entry and no error
C38_Witness ==
    /\ sums # <<>>
    /\ Len(sumLines) = 3
    /\ sumLines[1].kind = "star"
    /\ sumLines[2].kind = "empty"
    /\ NotTwoFields(sumLines[3])
    /\ sums[1].err = NoErr
    /\ DOMAIN sums[1].sums = {sumLines[1].name}

=============================================================================
